---- MODULE Spec2Model ----
(***************************************************************************)
(* Timesheet and leave management (Gestione Ore): the calendar utility,    *)
(* the hours formatter, the timesheet handlers and the monthly and annual  *)
(* report computations.                                                    *)
(*                                                                         *)
(* Conventions of the model                                                *)
(*  - hours are integers counted in thousandths of an hour (8.5 h = 8500), *)
(*    so that the 0.01 tolerances of formatHoursDisplay are visible;       *)
(*  - a string is a sequence of one-character strings;                     *)
(*  - a Date is a record [y, m, d] of local calendar fields, m 0-indexed;  *)
(*    every Date the program builds is a local midnight;                   *)
(*  - an ISO date string "YYYY-MM-DD" is the integer YYYYMMDD: for four    *)
(*    digit years the order of the integers is the lexicographic order of  *)
(*    the strings the code compares.                                       *)
(***************************************************************************)
EXTENDS Integers, Sequences, FiniteSets, TLC

VARIABLES
    employees,           \* App.tsx: employees state (list of Employee)
    entries,             \* App.tsx: timeEntries state (list of TimeEntry)
    leaveRequests,       \* App.tsx: leaveRequests state (list of LeaveRequest)
    selectedEmployeeId,  \* TimesheetView: selected employee
    selectedMonth,       \* TimesheetView: selected month (0-indexed)
    selectedYear,        \* TimesheetView: selected year
    ops,                 \* number of timesheet handler calls so far
    reportMonth,         \* ReportsView: selectedMonth
    reportYear,          \* ReportsView: selectedYear
    reportData,          \* ReportsView: reportData, the monthly rows
    annualYear,          \* ReportsView: annualYear
    annualEmployeeId,    \* ReportsView: annualEmployeeId
    annualData,          \* ReportsView: annualData (useMemo)
    dst,                 \* the host timezone observes EU daylight saving time
    lookup,              \* a call of a function: its arguments and result
    editingId,           \* EmployeesView: editingId
    editSchedule,        \* EmployeesView: editSchedule
    view                 \* App: view, the view on screen

\* App.tsx: the persisted collections
dataVars == <<employees, entries, leaveRequests>>

\* TimesheetView: the selection
sheetVars == <<selectedEmployeeId, selectedMonth, selectedYear>>

\* ReportsView: the monthly and the annual tab
reportVars == <<reportMonth, reportYear, reportData>>

annualVars == <<annualYear, annualEmployeeId, annualData>>

\* EmployeesView: the schedule editor
editVars == <<editingId, editSchedule>>

vars ==
    <<dataVars, sheetVars, ops, reportVars, annualVars, dst, view, editVars,
      lookup>>

-----------------------------------------------------------------------------
(* Bounds of the model *)

\* handler calls explored in one timesheet session
MaxOps == 3

-----------------------------------------------------------------------------
(* Small helpers *)

Max(a, b) == IF a >= b THEN a ELSE b

Abs(a) == IF a < 0 THEN -a ELSE a

\* Math.ceil(a / b) for a >= 0, b > 0
CeilDiv(a, b) == (a + b - 1) \div b

RECURSIVE SumSeq(_)
SumSeq(s) == IF s = <<>> THEN 0 ELSE Head(s) + SumSeq(Tail(s))

-----------------------------------------------------------------------------
(* JavaScript Date, local calendar fields *)

LeapYear(y) == (y % 4 = 0 /\ y % 100 # 0) \/ y % 400 = 0

MonthLengths == <<31, 28, 31, 30, 31, 30, 31, 31, 30, 31, 30, 31>>

\* number of days of month m (0-indexed) of year y
MonthLength(y, m) == IF m = 1 /\ LeapYear(y) THEN 29 ELSE MonthLengths[m + 1]

\* new Date(year, month, day)
NewDate(y, m, d) == [y |-> y, m |-> m, d |-> d]

\* days of the year before month m (0-indexed) in a common year
DaysBeforeMonthCommon == <<0, 31, 59, 90, 120, 151, 181, 212, 243, 273, 304, 334>>

DaysBeforeMonth(y, m) ==
    DaysBeforeMonthCommon[m + 1] + (IF m >= 2 /\ LeapYear(y) THEN 1 ELSE 0)

\* days from 1970-01-01 to January 1st of y (y >= 1970)
DaysBeforeYear(y) ==
    365 * (y - 1970) + ((y - 1969) \div 4) - ((y - 1901) \div 100)
        + ((y - 1601) \div 400)

\* calendar days from 1970-01-01 to the date
DayNumber(date) == DaysBeforeYear(date.y) + DaysBeforeMonth(date.y, date.m)
                     + (date.d - 1)

\* Date.getDay(): 0 = Sunday .. 6 = Saturday (1970-01-01 was a Thursday)
getDay(date) == (DayNumber(date) + 4) % 7

\* date.setDate(date.getDate() + 1)
NextDay(date) ==
    IF date.d < MonthLength(date.y, date.m) THEN [date EXCEPT !.d = @ + 1]
    ELSE IF date.m < 11 THEN NewDate(date.y, date.m + 1, 1)
         ELSE NewDate(date.y + 1, 0, 1)

\* the last Sunday of month m of year y
LastSunday(y, m) ==
    LET last == NewDate(y, m, MonthLength(y, m))
    IN  NewDate(y, m, last.d - getDay(last))

\* UTC offset in hours at the local midnight of the date: +1, or +2 while
\* daylight saving time is in effect (from 02:00 of the last Sunday of March
\* to 03:00 of the last Sunday of October); 0 for a host without DST (UTC)
UtcOffset(date) ==
    IF ~dst THEN 0
    ELSE IF /\ DayNumber(date) > DayNumber(LastSunday(date.y, 2))
            /\ DayNumber(date) <= DayNumber(LastSunday(date.y, 9))
         THEN 2 ELSE 1

\* Date.getTime() of a local midnight, in hours since the epoch
getTime(date) == DayNumber(date) * 24 - UtcOffset(date)

\* utils.ts getDaysInMonth: the loop from the 1st while the month is unchanged
RECURSIVE DaysLoop(_, _)
DaysLoop(date, month) ==
    IF date.m = month THEN <<date>> \o DaysLoop(NextDay(date), month)
    ELSE <<>>

\* a getDaysInMonth that stops one day early
getDaysInMonth_DropsLastDay(month, year) ==
    LET ds == DaysLoop(NewDate(year, month, 1), month)
    IN  SubSeq(ds, 1, Len(ds) - 1)

\* a getDaysInMonth whose loop starts at the 2nd
getDaysInMonth_FromSecond(month, year) ==
    DaysLoop(NewDate(year, month, 2), month)

getDaysInMonth(month, year) == DaysLoop(NewDate(year, month, 1), month)

\* getDaysInMonth for the months of the years the views offer
MonthDays == [y \in 2023..2026 |-> [m \in 0..11 |-> getDaysInMonth(m, y)]]

\* utils.ts formatDateISO: "YYYY-MM-DD" from the local fields
formatDateISO(date) == date.y * 10000 + (date.m + 1) * 100 + date.d

\* an isHoliday without the Epiphany
isHoliday_WithoutEpiphany(date) ==
    LET day == getDay(date)
        d == date.d
        m == date.m
    IN  \/ day = 0
        \/ d = 1 /\ m = 0
        \/ d = 25 /\ m = 3
        \/ d = 1 /\ m = 4
        \/ d = 2 /\ m = 5
        \/ d = 15 /\ m = 7
        \/ d = 1 /\ m = 10
        \/ d = 8 /\ m = 11
        \/ d = 25 /\ m = 11
        \/ d = 26 /\ m = 11

\* utils.ts isHoliday
isHoliday(date) ==
    LET day == getDay(date)
        d == date.d
        m == date.m
    IN  \/ day = 0
        \/ d = 1 /\ m = 0
        \/ d = 6 /\ m = 0
        \/ d = 25 /\ m = 3
        \/ d = 1 /\ m = 4
        \/ d = 2 /\ m = 5
        \/ d = 15 /\ m = 7
        \/ d = 1 /\ m = 10
        \/ d = 8 /\ m = 11
        \/ d = 25 /\ m = 11
        \/ d = 26 /\ m = 11

-----------------------------------------------------------------------------
(* Strings and the hours formatter (utils.ts) *)

Digits == <<"0", "1", "2", "3", "4", "5", "6", "7", "8", "9">>

IsDigit(c) == \E i \in 1..10 : Digits[i] = c

DigitVal(c) == (CHOOSE i \in 1..10 : Digits[i] = c) - 1

\* Number.prototype.toString for a natural number
RECURSIVE NatToStr(_)
NatToStr(n) ==
    IF n < 10 THEN <<Digits[n + 1]>>
    ELSE NatToStr(n \div 10) \o <<Digits[(n % 10) + 1]>>

RECURSIVE TrimLeft(_)
TrimLeft(s) == IF s # <<>> /\ Head(s) = " " THEN TrimLeft(Tail(s)) ELSE s

RECURSIVE TrimRight(_)
TrimRight(s) ==
    IF s # <<>> /\ s[Len(s)] = " " THEN TrimRight(SubSeq(s, 1, Len(s) - 1))
    ELSE s

\* String.prototype.trim
Trim(s) == TrimRight(TrimLeft(s))

\* String.prototype.replace(from, to) with a string pattern: first match only
RECURSIVE ReplaceFirst(_, _, _)
ReplaceFirst(s, from, to) ==
    IF s = <<>> THEN <<>>
    ELSE IF Head(s) = from THEN <<to>> \o Tail(s)
         ELSE <<Head(s)>> \o ReplaceFirst(Tail(s), from, to)

StartsWith(s, p) == Len(s) >= Len(p) /\ SubSeq(s, 1, Len(p)) = p

EndsWith(s, p) ==
    Len(s) >= Len(p) /\ SubSeq(s, Len(s) - Len(p) + 1, Len(s)) = p

\* s.split('.')[0]: what precedes the first '.'
RECURSIVE BeforeDot(_)
BeforeDot(s) ==
    IF s = <<>> \/ Head(s) = "." THEN <<>>
    ELSE <<Head(s)>> \o BeforeDot(Tail(s))

\* the longest prefix of digits
RECURSIVE DigitPrefix(_)
DigitPrefix(s) ==
    IF s # <<>> /\ IsDigit(Head(s)) THEN <<Head(s)>> \o DigitPrefix(Tail(s))
    ELSE <<>>

RECURSIVE DigitsToNat(_)
DigitsToNat(s) ==
    IF s = <<>> THEN 0
    ELSE DigitsToNat(SubSeq(s, 1, Len(s) - 1)) * 10 + DigitVal(s[Len(s)])

\* a JavaScript number: NaN, or a value in thousandths
NaN == [nan |-> TRUE, v |-> 0]

Num(v) == [nan |-> FALSE, v |-> v]

\* the sign a numeric literal starts with, and the rest
SignOf(s) == IF s # <<>> /\ Head(s) = "-" THEN -1 ELSE 1

Unsigned(s) == IF s # <<>> /\ Head(s) \in {"-", "+"} THEN Tail(s) ELSE s

\* parseInt(s, 10): leading blanks, a sign, then digits; NaN without a digit
parseInt(s) ==
    LET t == TrimLeft(s)
        ds == DigitPrefix(Unsigned(t))
    IN  IF ds = <<>> THEN NaN
        ELSE Num(SignOf(t) * DigitsToNat(ds) * 1000)

\* the first three decimals of a digit string, in thousandths
Thousandths(fs) ==
    LET f == SubSeq(fs \o <<"0", "0", "0">>, 1, 3)
    IN  DigitsToNat(f)

\* parseFloat(s): leading blanks, a sign, digits, an optional '.' and digits;
\* what follows the literal is ignored; NaN when no digit is read.
\* (Exponents and "Infinity" are outside the alphabet of the model, and the
\* fraction is kept to thousandths.)
parseFloat(s) ==
    LET t == TrimLeft(s)
        u == Unsigned(t)
        ip == DigitPrefix(u)
        rest == SubSeq(u, Len(ip) + 1, Len(u))
        fp == IF rest # <<>> /\ Head(rest) = "." THEN DigitPrefix(Tail(rest))
              ELSE <<>>
    IN  IF ip = <<>> /\ fp = <<>> THEN NaN
        ELSE Num(SignOf(t) * (DigitsToNat(ip) * 1000 + Thousandths(fp)))

\* (abs).toFixed(2).replace('.', ','), abs >= 0 in thousandths
ToFixed2Comma(abs) ==
    LET cents == (abs + 5) \div 10
        frac == cents % 100
    IN  NatToStr(cents \div 100) \o <<",">>
            \o <<Digits[(frac \div 10) + 1], Digits[(frac % 10) + 1]>>

\* a formatHoursDisplay that writes the half hour as a decimal
formatHoursDisplay_DecimalHalf(hours) ==
    IF hours = 0 THEN <<>>
    ELSE LET sign == IF hours < 0 THEN <<"-">> ELSE <<>>
             absHours == Abs(hours)
             h == absHours \div 1000
             decimal == absHours - h * 1000
         IN  IF decimal < 10 THEN sign \o NatToStr(h)
             ELSE sign \o ToFixed2Comma(absHours)

\* utils.ts formatHoursDisplay (hours: a number that is not NaN)
formatHoursDisplay(hours) ==
    IF hours = 0 THEN <<>>
    ELSE LET sign == IF hours < 0 THEN <<"-">> ELSE <<>>
             absHours == Abs(hours)
             h == absHours \div 1000
             decimal == absHours - h * 1000
         IN  IF Abs(decimal - 500) < 10 THEN sign \o NatToStr(h) \o <<",", "3", "0">>
             ELSE IF decimal < 10 THEN sign \o NatToStr(h)
             ELSE sign \o ToFixed2Comma(absHours)

\* null, as a value passed where a number is expected
null == [null |-> TRUE]

\* utils.ts formatHoursDisplay on any value: '' for undefined, null and NaN,
\* otherwise as above (value: Num(v), NaN, null or [undefined |-> TRUE])
formatHoursDisplayOfValue(value) ==
    IF "nan" \in DOMAIN value
    THEN IF value.nan THEN <<>> ELSE formatHoursDisplay(value.v)
    ELSE <<>>

\* a parseHoursInput without the half-hour shorthand
parseHoursInput_NoShorthand(input) ==
    IF input = <<>> THEN 0
    ELSE LET clean0 == ReplaceFirst(Trim(input), ",", ".")
             isNegative == StartsWith(clean0, <<"-">>)
             cleanInput == IF isNegative THEN Tail(clean0) ELSE clean0
             result == parseFloat(cleanInput)
         IN  IF result.nan THEN 0
             ELSE IF isNegative THEN -result.v ELSE result.v

\* utils.ts parseHoursInput
parseHoursInput(input) ==
    IF input = <<>> THEN 0
    ELSE LET clean0 == ReplaceFirst(Trim(input), ",", ".")
             isNegative == StartsWith(clean0, <<"-">>)
             cleanInput == IF isNegative THEN Tail(clean0) ELSE clean0
             result ==
                 IF \/ EndsWith(cleanInput, <<".", "3", "0">>)
                    \/ EndsWith(cleanInput, <<".", "3">>)
                 THEN LET p0 == BeforeDot(cleanInput)
                          h == parseInt(IF p0 = <<>> THEN <<"0">> ELSE p0)
                      IN  IF h.nan THEN NaN ELSE Num(h.v + 500)
                 ELSE parseFloat(cleanInput)
         IN  IF result.nan THEN 0
             ELSE IF isNegative THEN -result.v ELSE result.v

-----------------------------------------------------------------------------
(* Data model (utils.ts types) *)

\* LeaveType
FERIE == "Ferie"

PERMESSO == "Permesso"

MALATTIA == "Malattia"

LeaveType == {FERIE, PERMESSO, MALATTIA}

\* LeaveStatus
PENDING == "In Attesa"

APPROVED == "Approvato"

REJECTED == "Rifiutato"

LeaveStatus == {PENDING, APPROVED, REJECTED}

\* the value of a lookup that finds nothing
undefined == [undefined |-> TRUE]

\* EmployeesView.tsx createDefaultSchedule: 8 hours on the working days
createDefaultSchedule(workingDays) ==
    [day \in 0..6 |-> IF day \in workingDays THEN 8000 ELSE 0]

\* An Employee: id and defaultSchedule (name, role and contractHoursWeekly
\* are carried through unchanged and are not read by any computation here).
\* A TimeEntry: employeeId, date (ISO), hours (its random id is never read).
\* A LeaveRequest: id, employeeId, startDate, endDate (ISO), type, status.

\* the stored employees the sessions of the model start from: one with the
\* default Monday-to-Friday schedule, one with an edited schedule of a half
\* day on Saturday and hours entered on the Sunday
StoredEmployees ==
    << [id |-> "e1", defaultSchedule |-> createDefaultSchedule({1, 2, 3, 4, 5})],
       [id |-> "e2", defaultSchedule |->
            [day \in 0..6 |-> CASE day = 0 -> 4000
                                [] day = 6 -> 4500
                                [] OTHER -> 0]] >>

\* the years and months the views are switched between
ModelYears == {2025}

ModelMonths == {10, 11}

\* the days of the month whose row is used in the timesheet
ClickDays == {8, 9}

\* the texts typed into an hours input
TypedTexts == { <<>>, <<"3">>, <<"3", ",", "3", "0">>, <<"3", ",", "7">> }

-----------------------------------------------------------------------------
(* Lookups shared by TimesheetView and ReportsView *)

\* entries.find(e => e.employeeId === empId && e.date === dateStr), as the
\* 1-based index of the first match, 0 when there is none
RECURSIVE FindEntryFrom(_, _, _, _)
FindEntryFrom(list, empId, dateStr, i) ==
    IF i > Len(list) THEN 0
    ELSE IF list[i].employeeId = empId /\ list[i].date = dateStr THEN i
         ELSE FindEntryFrom(list, empId, dateStr, i + 1)

FindEntry(list, empId, dateStr) == FindEntryFrom(list, empId, dateStr, 1)

\* an entry lookup that matches the date alone
EntryHours_AnyEmployee(list, date, empId) ==
    LET hit == {i \in 1..Len(list) : list[i].date = formatDateISO(date)}
    IN  IF hit = {} THEN 0
        ELSE list[CHOOSE i \in hit : \A j \in hit : i <= j].hours

\* TimesheetView getEntryHours / ReportsView: entry ? entry.hours : 0
EntryHours(list, date, empId) ==
    LET i == FindEntry(list, empId, formatDateISO(date))
    IN  IF i = 0 THEN 0 ELSE list[i].hours

getEntryHours(date, empId) == EntryHours(entries, date, empId)

\* a find predicate that leaves the last day of the request out
LeaveMatches_ExclusiveEnd(req, dateStr, empId) ==
    /\ req.employeeId = empId
    /\ req.status = APPROVED
    /\ dateStr >= req.startDate
    /\ dateStr < req.endDate

\* the predicate of getApprovedLeave's find
LeaveMatches(req, dateStr, empId) ==
    /\ req.employeeId = empId
    /\ req.status = APPROVED
    /\ dateStr >= req.startDate
    /\ dateStr <= req.endDate

RECURSIVE FindLeaveFrom(_, _, _, _)
FindLeaveFrom(list, dateStr, empId, i) ==
    IF i > Len(list) THEN undefined
    ELSE IF LeaveMatches(list[i], dateStr, empId) THEN list[i]
         ELSE FindLeaveFrom(list, dateStr, empId, i + 1)

\* getApprovedLeave over a given request list
ApprovedLeave(list, date, empId) ==
    FindLeaveFrom(list, formatDateISO(date), empId, 1)

\* TimesheetView / ReportsView getApprovedLeave
getApprovedLeave(date, empId) == ApprovedLeave(leaveRequests, date, empId)

\* employees.find(e => e.id === id)
FindEmployee(id) ==
    IF \E i \in 1..Len(employees) : employees[i].id = id
    THEN employees[CHOOSE i \in 1..Len(employees) :
                       /\ employees[i].id = id
                       /\ \A j \in 1..(i - 1) : employees[j].id # id]
    ELSE undefined

\* leave?.type === type
LeaveIs(leave, type) == IF leave = undefined THEN FALSE ELSE leave.type = type

\* isHol ? 0 : (emp.defaultSchedule[day.getDay()] || 0)
Scheduled(emp, date) ==
    IF isHoliday(date) THEN 0 ELSE emp.defaultSchedule[getDay(date)]

-----------------------------------------------------------------------------
(* TimesheetView handlers (EmployeesView.tsx) *)

selectedEmployee == FindEmployee(selectedEmployeeId)

\* the days of the selected month
days == MonthDays[selectedYear][selectedMonth]

\* a handleHourChange that never looks for the entry of the day
HourChanged_AlwaysAppends(prev, date, empId, val) ==
    Append(prev, [employeeId |-> empId, date |-> formatDateISO(date),
                  hours |-> parseHoursInput(val)])

\* the updater of handleHourChange, applied to the list prev
HourChanged(prev, date, empId, val) ==
    LET dateStr == formatDateISO(date)
        numVal == parseHoursInput(val)
        existingIndex == FindEntry(prev, empId, dateStr)
    IN  IF existingIndex > 0
        THEN [prev EXCEPT ![existingIndex].hours = numVal]
        ELSE Append(prev, [employeeId |-> empId, date |-> dateStr,
                           hours |-> numVal])

\* generateId: an id no stored request carries
generateId(list) ==
    CHOOSE n \in 1..(Len(list) + 1) : \A i \in 1..Len(list) : list[i].id # n

RemoveId(list, id) == SelectSeq(list, LAMBDA r : r.id # id)

\* what the hours input of a row shows
displayValue(date) ==
    LET leave == getApprovedLeave(date, selectedEmployeeId)
        isPermesso == LeaveIs(leave, PERMESSO)
        scheduled == IF selectedEmployee = undefined THEN 0
                     ELSE Scheduled(selectedEmployee, date)
        currentWorked == getEntryHours(date, selectedEmployeeId)
    IN  IF isPermesso
        THEN formatHoursDisplay(Max(0, scheduled - currentWorked))
        ELSE formatHoursDisplay(currentWorked)

\* the input is rendered when the day has no leave or a Permesso
showInput(date) ==
    LET leave == getApprovedLeave(date, selectedEmployeeId)
    IN  IF leave = undefined THEN TRUE ELSE leave.type = PERMESSO

\* the worked hours handleInputChange hands to handleHourChange, as text
InputChangeText(date, val) ==
    LET leave == getApprovedLeave(date, selectedEmployeeId)
        isPermesso == LeaveIs(leave, PERMESSO)
        scheduled == IF selectedEmployee = undefined THEN 0
                     ELSE Scheduled(selectedEmployee, date)
    IN  IF isPermesso
        THEN formatHoursDisplay(Max(0, scheduled - parseHoursInput(val)))
        ELSE val

\* typing val into the hours input of the row of date
handleInputChange(date, val) ==
    /\ ops < MaxOps
    /\ showInput(date)
    /\ entries' = HourChanged(entries, date, selectedEmployeeId,
                              InputChangeText(date, val))
    /\ ops' = ops + 1
    /\ UNCHANGED <<employees, leaveRequests, sheetVars, reportVars, annualVars,
                   dst, view, editVars, lookup>>

\* the worked hours handleInputIncrement hands to handleHourChange, as text
InputIncrementText(date, delta) ==
    LET leave == getApprovedLeave(date, selectedEmployeeId)
        isPermesso == LeaveIs(leave, PERMESSO)
        scheduled == IF selectedEmployee = undefined THEN 0
                     ELSE Scheduled(selectedEmployee, date)
        current == parseHoursInput(displayValue(date))
    IN  IF isPermesso
        THEN formatHoursDisplay(Max(0, scheduled - Max(0, current + delta)))
        ELSE formatHoursDisplay(Max(0, current + delta))

\* the up (+0.5) and down (-0.5) buttons of the row of date
handleInputIncrement(date, delta) ==
    /\ ops < MaxOps
    /\ showInput(date)
    /\ entries' = HourChanged(entries, date, selectedEmployeeId,
                              InputIncrementText(date, delta))
    /\ ops' = ops + 1
    /\ UNCHANGED <<employees, leaveRequests, sheetVars, reportVars, annualVars,
                   dst, view, editVars, lookup>>

\* a handleQuickLeave whose second click on a type keeps the request
QuickLeaveRequests_NoToggle(prev, date, type) ==
    LET existing == getApprovedLeave(date, selectedEmployeeId)
        newRequest == [id |-> generateId(prev),
                       employeeId |-> selectedEmployeeId,
                       startDate |-> formatDateISO(date),
                       endDate |-> formatDateISO(date),
                       type |-> type,
                       status |-> APPROVED]
    IN  IF LeaveIs(existing, type)
        THEN prev
        ELSE Append(IF existing = undefined THEN prev
                    ELSE RemoveId(prev, existing.id), newRequest)

\* the request list after handleQuickLeave
QuickLeaveRequests(prev, date, type) ==
    LET existing == getApprovedLeave(date, selectedEmployeeId)
        newRequest == [id |-> generateId(prev),
                       employeeId |-> selectedEmployeeId,
                       startDate |-> formatDateISO(date),
                       endDate |-> formatDateISO(date),
                       type |-> type,
                       status |-> APPROVED]
    IN  IF LeaveIs(existing, type)
        THEN RemoveId(prev, existing.id)
        ELSE Append(IF existing = undefined THEN prev
                    ELSE RemoveId(prev, existing.id), newRequest)

\* a handleQuickLeave that never clears the hours
QuickLeaveEntries_KeepsHours(prev, date, type) == prev

\* the entry list after handleQuickLeave
QuickLeaveEntries(prev, date, type) ==
    LET existing == getApprovedLeave(date, selectedEmployeeId)
    IN  IF LeaveIs(existing, type) THEN prev
        ELSE IF type # PERMESSO
             THEN HourChanged(prev, date, selectedEmployeeId, <<>>)
             ELSE prev

\* the F / P / M buttons of the row of date
handleQuickLeave(date, type) ==
    /\ ops < MaxOps
    /\ leaveRequests' = QuickLeaveRequests(leaveRequests, date, type)
    /\ entries' = QuickLeaveEntries(entries, date, type)
    /\ ops' = ops + 1
    /\ UNCHANGED <<employees, sheetVars, reportVars, annualVars, dst, view, editVars, lookup>>

\* applyPresets: whether the preset is written for the day
PresetApplies(emp, day) ==
    LET leave == getApprovedLeave(day, emp.id)
    IN  /\ ~isHoliday(day)
        /\ (IF leave = undefined THEN TRUE ELSE leave.type = PERMESSO)
        /\ emp.defaultSchedule[getDay(day)] > 0

\* applyPresets: the entries built by the loop over the days
RECURSIVE PresetEntries(_, _)
PresetEntries(emp, ds) ==
    IF ds = <<>> THEN <<>>
    ELSE (IF PresetApplies(emp, Head(ds))
          THEN << [employeeId |-> emp.id, date |-> formatDateISO(Head(ds)),
                   hours |-> emp.defaultSchedule[getDay(Head(ds))]] >>
          ELSE <<>>) \o PresetEntries(emp, Tail(ds))

\* an applyPresets that keeps the entries the month already has
PresetsApplied_KeepsOld(prev) ==
    prev \o PresetEntries(selectedEmployee, days)

\* applyPresets: the updater handed to setEntries
PresetsApplied(prev) ==
    LET startStr == formatDateISO(days[1])
        endStr == formatDateISO(days[Len(days)])
        filtered == SelectSeq(prev, LAMBDA e :
                        ~(/\ e.employeeId = selectedEmployeeId
                          /\ e.date >= startStr
                          /\ e.date <= endStr))
    IN  filtered \o PresetEntries(selectedEmployee, days)

\* the "Inserisci ore preimpostate" button
applyPresets ==
    /\ ops < MaxOps
    /\ selectedEmployee # undefined
    /\ entries' = PresetsApplied(entries)
    /\ ops' = ops + 1
    /\ UNCHANGED <<employees, leaveRequests, sheetVars, reportVars, annualVars,
                   dst, view, editVars, lookup>>

\* the employee buttons of the sidebar
setSelectedEmployeeId(id) ==
    /\ ops < MaxOps
    /\ selectedEmployeeId' = id
    /\ ops' = ops + 1
    /\ UNCHANGED <<dataVars, selectedMonth, selectedYear, reportVars,
                   annualVars, dst, view, editVars, lookup>>

\* the month select
setSelectedMonth(m) ==
    /\ ops < MaxOps
    /\ selectedMonth' = m
    /\ ops' = ops + 1
    /\ UNCHANGED <<dataVars, selectedEmployeeId, selectedYear, reportVars,
                   annualVars, dst, view, editVars, lookup>>

-----------------------------------------------------------------------------
(* The timesheet sessions *)

\* the rows of the selected month that are used
ClickDates == {NewDate(selectedYear, selectedMonth, d) : d \in ClickDays}

Init ==
    /\ employees \in {StoredEmployees, <<StoredEmployees[2], StoredEmployees[1]>>}
    /\ entries = <<>>
    /\ leaveRequests = <<>>
    /\ selectedEmployeeId = employees[1].id
    /\ selectedMonth \in ModelMonths
    /\ selectedYear \in ModelYears
    /\ ops = 0
    /\ reportMonth = selectedMonth
    /\ reportYear = selectedYear
    /\ reportData = undefined
    /\ annualYear = selectedYear
    /\ annualEmployeeId = "ALL"
    /\ annualData = undefined
    /\ dst = TRUE
    /\ view = "TIMESHEET"
    /\ editingId = null
    /\ editSchedule = createDefaultSchedule({1, 2, 3, 4, 5})
    /\ lookup = undefined

Next ==
    \/ \E i \in 1..Len(employees) :
           /\ employees[i].id # selectedEmployeeId
           /\ setSelectedEmployeeId(employees[i].id)
    \/ \E m \in ModelMonths \ {selectedMonth} : setSelectedMonth(m)
    \/ \E date \in ClickDates, val \in TypedTexts : handleInputChange(date, val)
    \/ \E date \in ClickDates, delta \in {500, -500} :
           handleInputIncrement(date, delta)
    \/ \E date \in ClickDates, type \in LeaveType : handleQuickLeave(date, type)
    \/ applyPresets

Spec == Init /\ [][Next]_vars

-----------------------------------------------------------------------------
(* ReportsView: the monthly report *)

\* Math.max(0, totalWorked - expected)
Overtime(worked, expected) == Max(0, worked - expected)

\* a deficit computed with the operands of the overtime
Deficit_AsOvertime(worked, expected) == Max(0, worked - expected)

\* Math.max(0, expected - totalWorked)
Deficit(worked, expected) == Max(0, expected - worked)

\* leave hours that count the whole schedule for every type of leave
DayLeaveHours_AlwaysFull(leave, sched, workedOnDay) ==
    IF leave = undefined THEN 0 ELSE sched

\* generateReportData: what one day adds to leaveHours
DayLeaveHours(leave, sched, workedOnDay) ==
    IF leave = undefined THEN 0
    ELSE IF leave.type = PERMESSO THEN Max(0, sched - workedOnDay)
         ELSE sched

\* generateReportData: the body of days.forEach, what one day adds to the
\* three running totals
ReportDay(emp, day) ==
    LET sched == Scheduled(emp, day)
        workedOnDay == EntryHours(entries, day, emp.id)
        leave == getApprovedLeave(day, emp.id)
    IN  [totalWorked |-> workedOnDay,
         expected |-> sched,
         leaveHours |-> DayLeaveHours(leave, sched, workedOnDay)]

\* days.forEach: the running totals after the first n days
RECURSIVE TotalWorked(_, _, _)
TotalWorked(emp, ds, n) ==
    IF n = 0 THEN 0
    ELSE TotalWorked(emp, ds, n - 1) + ReportDay(emp, ds[n]).totalWorked

RECURSIVE TotalExpected(_, _, _)
TotalExpected(emp, ds, n) ==
    IF n = 0 THEN 0
    ELSE TotalExpected(emp, ds, n - 1) + ReportDay(emp, ds[n]).expected

RECURSIVE TotalLeaveHours(_, _, _)
TotalLeaveHours(emp, ds, n) ==
    IF n = 0 THEN 0
    ELSE TotalLeaveHours(emp, ds, n - 1) + ReportDay(emp, ds[n]).leaveHours

\* generateReportData: the row of one employee
ReportRow(emp, ds) ==
    LET totalWorked == TotalWorked(emp, ds, Len(ds))
        expected == TotalExpected(emp, ds, Len(ds))
        leaveHours == TotalLeaveHours(emp, ds, Len(ds))
    IN  [id |-> emp.id,
         worked |-> totalWorked,
         expected |-> expected,
         leaveHours |-> leaveHours,
         overtime |-> Overtime(totalWorked, expected),
         deficit |-> Deficit(totalWorked, expected)]

\* generateReportData for the month and year selected in the monthly tab
generateReportData(month, year) ==
    [i \in 1..Len(employees) |-> ReportRow(employees[i], MonthDays[year][month])]

\* the month select of the monthly tab, and the render that follows
setReportMonth(m) ==
    /\ reportMonth' = m
    /\ reportData' = generateReportData(m, reportYear)
    /\ UNCHANGED <<dataVars, sheetVars, ops, reportYear, annualVars, dst, view, editVars,
                   lookup>>

\* the year select of the monthly tab, and the render that follows
setReportYear(y) ==
    /\ reportYear' = y
    /\ reportData' = generateReportData(reportMonth, y)
    /\ UNCHANGED <<dataVars, sheetVars, ops, reportMonth, annualVars, dst, view, editVars,
                   lookup>>

-----------------------------------------------------------------------------
(* The monthly report over stored data *)

\* the sub-lists of a list: the elements at the positions in S, in order
RECURSIVE PickFrom(_, _, _)
PickFrom(pool, S, i) ==
    IF i > Len(pool) THEN <<>>
    ELSE (IF i \in S THEN <<pool[i]>> ELSE <<>>) \o PickFrom(pool, S, i + 1)

SubLists(pool) == {PickFrom(pool, S, 1) : S \in SUBSET (1..Len(pool))}

Reverse(s) == [i \in 1..Len(s) |-> s[Len(s) + 1 - i]]

\* stored time entries the reports are computed from: at most one for an
\* (employee, date) pair; under and over the schedule, on a leave day
EntryPool ==
    << [employeeId |-> "e1", date |-> 20251209, hours |-> 5000],
       [employeeId |-> "e1", date |-> 20251210, hours |-> 9500],
       [employeeId |-> "e2", date |-> 20250906, hours |-> 9500],
       [employeeId |-> "e2", date |-> 20250913, hours |-> 9000] >>

\* stored leave requests: the three types, ranges over several days and over
\* a holiday, and two requests of one employee that overlap
LeavePool ==
    << [id |-> 1, employeeId |-> "e1", startDate |-> 20251208,
        endDate |-> 20251210, type |-> FERIE, status |-> APPROVED],
       [id |-> 2, employeeId |-> "e1", startDate |-> 20251209,
        endDate |-> 20251209, type |-> PERMESSO, status |-> APPROVED],
       [id |-> 3, employeeId |-> "e2", startDate |-> 20250906,
        endDate |-> 20250909, type |-> PERMESSO, status |-> APPROVED],
       [id |-> 4, employeeId |-> "e2", startDate |-> 20250913,
        endDate |-> 20250913, type |-> MALATTIA, status |-> APPROVED] >>

\* the periods shown in the monthly tab
ReportMonths == {8, 11}

ReportYears == {2023, 2025}

InitReport ==
    /\ employees = StoredEmployees
    /\ entries \in SubLists(EntryPool)
    /\ leaveRequests \in SubLists(LeavePool) \cup {Reverse(LeavePool)}
    /\ selectedEmployeeId = employees[1].id
    /\ selectedMonth = 11
    /\ selectedYear = 2025
    /\ ops = 0
    /\ reportMonth = 11
    /\ reportYear = 2025
    /\ reportData = generateReportData(reportMonth, reportYear)
    /\ annualYear = 2025
    /\ annualEmployeeId = "ALL"
    /\ annualData = undefined
    /\ dst = TRUE
    /\ view = "REPORTS"
    /\ editingId = null
    /\ editSchedule = createDefaultSchedule({1, 2, 3, 4, 5})
    /\ lookup = undefined

NextReport ==
    \/ \E m \in ReportMonths \ {reportMonth} : setReportMonth(m)
    \/ \E y \in ReportYears \ {reportYear} : setReportYear(y)

SpecReport == InitReport /\ [][NextReport]_vars

-----------------------------------------------------------------------------
(* Claims about the monthly report, checked under SpecReport *)

\* the sum of f[1] .. f[n]
RECURSIVE SumTo(_, _)
SumTo(f, n) == IF n = 0 THEN 0 ELSE f[n] + SumTo(f, n - 1)

\* the hours of the entry matching (employee, date), 0 when there is none
ClaimWorkedOn(empId, date) ==
    LET hit == {i \in 1..Len(entries) :
                    /\ entries[i].employeeId = empId
                    /\ entries[i].date = formatDateISO(date)}
    IN  IF hit = {} THEN 0 ELSE entries[CHOOSE i \in hit : TRUE].hours

\* the approved requests of the employee that cover the date
ClaimCovering(empId, date) ==
    {i \in 1..Len(leaveRequests) :
        /\ leaveRequests[i].employeeId = empId
        /\ leaveRequests[i].status = APPROVED
        /\ leaveRequests[i].startDate <= formatDateISO(date)
        /\ formatDateISO(date) <= leaveRequests[i].endDate}

\* the leave hours of a day as the aggregation rule states them
ClaimLeaveHoursOn(emp, date) ==
    LET cov == ClaimCovering(emp.id, date)
        first == CHOOSE i \in cov : \A j \in cov : i <= j
        type == leaveRequests[first].type
    IN  IF cov = {} THEN 0
        ELSE IF type \in {FERIE, MALATTIA} THEN Scheduled(emp, date)
        ELSE Max(0, Scheduled(emp, date) - ClaimWorkedOn(emp.id, date))

\* the sums over the calendar days 1 .. N of a month
ClaimWorked(emp, month, year) ==
    LET n == MonthLength(year, month)
    IN  SumTo([d \in 1..n |-> ClaimWorkedOn(emp.id, NewDate(year, month, d))], n)

ClaimExpected(emp, month, year) ==
    LET n == MonthLength(year, month)
    IN  SumTo([d \in 1..n |-> Scheduled(emp, NewDate(year, month, d))], n)

ClaimLeaveHours(emp, month, year) ==
    LET n == MonthLength(year, month)
    IN  SumTo([d \in 1..n |-> ClaimLeaveHoursOn(emp, NewDate(year, month, d))], n)

\* C1: the monthly report has exactly one row per employee, in employee
\* order; a row's worked is the sum over the calendar days of the month of
\* the hours of the entry matching (employee, date), 0 when there is none,
\* and its expected is the sum over the same days of the scheduled hours.
C1_RowPerEmployeeWithDaySums ==
    /\ Len(reportData) = Len(employees)
    /\ \A i \in 1..Len(employees) :
        /\ reportData[i].id = employees[i].id
        /\ reportData[i].worked =
               ClaimWorked(employees[i], reportMonth, reportYear)
        /\ reportData[i].expected =
               ClaimExpected(employees[i], reportMonth, reportYear)

\* C1 witness: a report of two rows, both employees with worked hours, in a
\* month where both are scheduled
C1_Witness ==
    /\ Len(entries) = Len(EntryPool)
    /\ reportMonth = 8 /\ reportYear = 2025
    /\ Len(reportData) = 2
    /\ reportData[2].worked = 18500
    /\ reportData[1].expected > 0 /\ reportData[2].expected > 0

\* C2: in every monthly row overtime = max(0, worked - expected) and
\* deficit = max(0, expected - worked); the two are never both nonzero and
\* overtime - deficit = worked - expected (42 worked, 40 expected: 2 and 0).
C2_OvertimeDeficit ==
    /\ \A i \in 1..Len(reportData) :
        LET r == reportData[i]
        IN  /\ r.overtime = (IF r.worked > r.expected
                             THEN r.worked - r.expected ELSE 0)
            /\ r.deficit = (IF r.expected > r.worked
                            THEN r.expected - r.worked ELSE 0)
            /\ (r.overtime = 0 \/ r.deficit = 0)
            /\ r.overtime - r.deficit = r.worked - r.expected
    /\ Overtime(42000, 40000) = 2000
    /\ Deficit(42000, 40000) = 0

\* C2 witness: a report with one row in overtime and one row in deficit
C2_Witness ==
    /\ \E i \in 1..Len(reportData) : reportData[i].overtime > 0
    /\ \E i \in 1..Len(reportData) : reportData[i].deficit > 0

\* the scenario of C3: a 30-day month with 4 Sundays and no other holiday
ThirtyDaysFourSundays(month, year) ==
    /\ MonthLength(year, month) = 30
    /\ Cardinality({d \in 1..30 : getDay(NewDate(year, month, d)) = 0}) = 4
    /\ \A d \in 1..30 : isHoliday(NewDate(year, month, d))
                           => getDay(NewDate(year, month, d)) = 0

\* the scenario of C3: the Monday-to-Friday employee without entries and
\* without leave requests, at position i of the employee list
MonFriIdle(i) ==
    /\ employees[i].defaultSchedule = [day \in 0..6 |->
                                          IF day \in 1..5 THEN 8000 ELSE 0]
    /\ \A k \in 1..Len(entries) : entries[k].employeeId # employees[i].id
    /\ \A k \in 1..Len(leaveRequests) :
           leaveRequests[k].employeeId # employees[i].id

\* C3 as stated: in that scenario expected = 8 x (30 - 4) = 208, worked = 0,
\* deficit = 208 and overtime = 0.
C3_AsStated ==
    \A i \in 1..Len(employees) :
        MonFriIdle(i) /\ ThirtyDaysFourSundays(reportMonth, reportYear)
        => /\ reportData[i].expected = 208000
           /\ reportData[i].worked = 0
           /\ reportData[i].deficit = 208000
           /\ reportData[i].overtime = 0

\* C3 amended: in that scenario expected = 8 x (the number of days of the
\* month from Monday to Friday), the Saturdays being unscheduled like the
\* Sundays: 8 x (30 - 4 - Saturdays), which is 168 or 176; worked = 0,
\* deficit = expected and overtime = 0.
C3_MonFriDaysOnly ==
    \A i \in 1..Len(employees) :
        MonFriIdle(i) /\ ThirtyDaysFourSundays(reportMonth, reportYear)
        => LET sat == Cardinality({d \in 1..30 :
                         getDay(NewDate(reportYear, reportMonth, d)) = 6})
           IN  /\ reportData[i].expected = 8000 * (30 - 4 - sat)
               /\ reportData[i].expected \in {168000, 176000}
               /\ reportData[i].worked = 0
               /\ reportData[i].deficit = reportData[i].expected
               /\ reportData[i].overtime = 0

\* C3 witness: the report of September 2025 (4 Sundays, 4 Saturdays) with
\* the Monday-to-Friday employee idle
C3_Witness ==
    /\ reportMonth = 8 /\ reportYear = 2025
    /\ ThirtyDaysFourSundays(reportMonth, reportYear)
    /\ MonFriIdle(1)
    /\ reportData[1].expected = 176000

\* C4: the leave hours a row adds for a day are the full scheduled hours
\* when the approved leave covering the day is Ferie or Malattia, whatever
\* the worked hours (which still count in the worked total),
\* max(0, scheduled - worked) when it is Permesso, and 0 without leave.
C4_LeaveHoursPerDay ==
    \A i \in 1..Len(employees) :
        /\ reportData[i].leaveHours =
               ClaimLeaveHours(employees[i], reportMonth, reportYear)
        /\ reportData[i].worked =
               ClaimWorked(employees[i], reportMonth, reportYear)

\* C4 witness: December 2025 of the first employee with a Permesso on the
\* 9th (8 scheduled, 5 worked: 3 hours) listed before a Ferie that covers
\* the 8th to the 10th (a holiday, then 8 hours on the 10th with 9.5 worked)
C4_Witness ==
    /\ reportMonth = 11 /\ reportYear = 2025
    /\ leaveRequests = Reverse(LeavePool)
    /\ Len(entries) = Len(EntryPool)
    /\ reportData[1].leaveHours = 11000
    /\ reportData[1].worked = 14500

-----------------------------------------------------------------------------
(* Claims about the timesheet handlers *)

\* the number of entries a list holds for the employee on the date
CountEntries(list, empId, dateStr) ==
    Cardinality({i \in 1..Len(list) : /\ list[i].employeeId = empId
                                      /\ list[i].date = dateStr})

\* the selected employee has an approved leave of the type on the date
SelectedLeaveIs(date, type) ==
    LeaveIs(getApprovedLeave(date, selectedEmployeeId), type)

\* C5: whatever handleHourChange, handleQuickLeave and applyPresets calls are
\* made from an empty entry list, the list holds at most one entry for each
\* pair of an employee and a date.
C5_OneEntryPerEmployeeAndDate ==
    \A i, j \in 1..Len(entries) :
        (/\ entries[i].employeeId = entries[j].employeeId
         /\ entries[i].date = entries[j].date) => i = j

\* C5 witness: the presets of December 2025 were written for the first
\* stored employee and a Ferie click on the 9th then cleared the entry the
\* presets had written for that day
C5_Witness ==
    /\ \E r \in 1..Len(leaveRequests) :
           /\ leaveRequests[r].employeeId = "e1"
           /\ leaveRequests[r].startDate = 20251209
           /\ leaveRequests[r].type = FERIE
    /\ CountEntries(entries, "e1", 20251209) = 1
    /\ EntryHours(entries, NewDate(2025, 11, 9), "e1") = 0
    /\ EntryHours(entries, NewDate(2025, 11, 10), "e1") = 8000

\* applyPresets considers the day: it is no holiday and the selected
\* employee has no approved leave on it, or a Permesso
PresetDue(day) ==
    /\ ~isHoliday(day)
    /\ \/ getApprovedLeave(day, selectedEmployeeId) = undefined
       \/ SelectedLeaveIs(day, PERMESSO)

\* applyPresets skips the day: a holiday, or a day of approved Ferie or
\* Malattia of the selected employee
PresetBarred(day) ==
    \/ isHoliday(day)
    \/ SelectedLeaveIs(day, FERIE)
    \/ SelectedLeaveIs(day, MALATTIA)

\* C6 as stated: after applyPresets every day of the month that is no
\* holiday and has no approved leave or a Permesso has exactly one entry of
\* the selected employee, holding the default hours of its weekday.
C6_AsStated ==
    [][applyPresets =>
         \A k \in 1..Len(days) :
             PresetDue(days[k]) =>
                 /\ CountEntries(entries', selectedEmployeeId,
                                 formatDateISO(days[k])) = 1
                 /\ EntryHours(entries', days[k], selectedEmployeeId)
                        = selectedEmployee.defaultSchedule[getDay(days[k])]
      ]_vars

\* C6: after applyPresets, for every day of the month that is no holiday
\* and has no approved leave or a Permesso, the hours recorded for the
\* selected employee are the default hours of its weekday: exactly one entry
\* holds them when they are positive, and no entry exists when they are 0.
C6_PresetHoursWhenScheduled ==
    [][applyPresets =>
         \A k \in 1..Len(days) :
             PresetDue(days[k]) =>
                 LET std == selectedEmployee.defaultSchedule[getDay(days[k])]
                     iso == formatDateISO(days[k])
                 IN  /\ CountEntries(entries', selectedEmployeeId, iso)
                            = (IF std > 0 THEN 1 ELSE 0)
                     /\ EntryHours(entries', days[k], selectedEmployeeId) = std
      ]_vars

\* C6 witness: December 2025 of the first stored employee after the presets
\* were applied over a Permesso on the 9th: the 9th and the 10th (which no
\* row of the session edits) carry the 8 preset hours, Saturday the 6th
\* carries no entry
C6_Witness ==
    /\ \E r \in 1..Len(leaveRequests) :
           /\ leaveRequests[r].employeeId = "e1"
           /\ leaveRequests[r].startDate = 20251209
           /\ leaveRequests[r].type = PERMESSO
    /\ EntryHours(entries, NewDate(2025, 11, 9), "e1") = 8000
    /\ EntryHours(entries, NewDate(2025, 11, 10), "e1") = 8000
    /\ CountEntries(entries, "e1", 20251206) = 0

\* C7 as stated: applyPresets leaves the holidays and the days of approved
\* Ferie or Malattia untouched: an entry the selected employee had on such a
\* day is still there with the same hours, and none appears where none was.
C7_AsStated ==
    [][applyPresets =>
         \A k \in 1..Len(days) :
             PresetBarred(days[k]) =>
                 LET iso == formatDateISO(days[k])
                 IN  /\ CountEntries(entries', selectedEmployeeId, iso)
                            = CountEntries(entries, selectedEmployeeId, iso)
                     /\ EntryHours(entries', days[k], selectedEmployeeId)
                            = EntryHours(entries, days[k], selectedEmployeeId)
      ]_vars

\* C7, what the call does instead: after applyPresets no entry of the
\* selected employee exists on a day of the month that is a holiday or a
\* day of approved Ferie or Malattia: none is written, and one that existed
\* before the call is removed.
C7_NoEntryOnBarredDays ==
    [][applyPresets =>
         \A k \in 1..Len(days) :
             PresetBarred(days[k]) =>
                 CountEntries(entries', selectedEmployeeId,
                              formatDateISO(days[k])) = 0
      ]_vars

\* C7 witness: the first stored employee has the Ferie a click put on
\* 9 December 2025 (the click left an entry of 0 hours on that day), the
\* presets of the month are written and the 9th has no entry any more
C7_Witness ==
    /\ \E r \in 1..Len(leaveRequests) :
           /\ leaveRequests[r].employeeId = "e1"
           /\ leaveRequests[r].startDate = 20251209
           /\ leaveRequests[r].type = FERIE
    /\ CountEntries(entries, "e1", 20251209) = 0
    /\ EntryHours(entries, NewDate(2025, 11, 10), "e1") = 8000

\* C7, on a holiday: the 3 hours typed for Monday 8 December 2025 (a
\* holiday) are still recorded after the presets of the month are applied.
C7_HolidayHoursKept ==
    [][(/\ applyPresets
        /\ selectedMonth = 11
        /\ EntryHours(entries, NewDate(2025, 11, 8), selectedEmployeeId) = 3000)
         => EntryHours(entries', NewDate(2025, 11, 8), selectedEmployeeId) = 3000
      ]_vars

\* the hours the selected employee is scheduled for on the date
SelectedScheduled(date) ==
    IF selectedEmployee = undefined THEN 0
    ELSE Scheduled(selectedEmployee, date)

\* the permit hours shown in the input and the leave hours the reports add
\* for the day are both p
PermitShownAndReported(date, p) ==
    /\ \A shown \in {displayValue(date)} : parseHoursInput(shown) = p
    /\ DayLeaveHours(getApprovedLeave(date, selectedEmployeeId),
                     SelectedScheduled(date),
                     getEntryHours(date, selectedEmployeeId)) = p

\* C8 as stated: on a day of approved Permesso with s scheduled hours,
\* typing the permit hours p stores max(0, s - p) worked hours for the day;
\* and when s and p are multiples of half an hour with 0 <= p <= s, the
\* permit hours shown and the leave hours reported for the day are p.
C8_AsStated ==
    [][\A date \in ClickDates, val \in TypedTexts :
           (handleInputChange(date, val) /\ SelectedLeaveIs(date, PERMESSO)) =>
               LET s == SelectedScheduled(date)
                   p == parseHoursInput(val)
               IN  /\ EntryHours(entries', date, selectedEmployeeId) = Max(0, s - p)
                   /\ (s % 500 = 0 /\ p % 500 = 0 /\ 0 <= p /\ p <= s) =>
                          PermitShownAndReported(date, p)'
      ]_vars

\* C8, the half hours alone: with s and p multiples of half an hour and
\* 0 <= p <= s, typing p on a Permesso day stores s - p, and the permit
\* hours shown and the leave hours reported are p.
C8_HalfHourPermits ==
    [][\A date \in ClickDates, val \in TypedTexts :
           (handleInputChange(date, val) /\ SelectedLeaveIs(date, PERMESSO)) =>
               LET s == SelectedScheduled(date)
                   p == parseHoursInput(val)
               IN  (s % 500 = 0 /\ p % 500 = 0 /\ 0 <= p /\ p <= s) =>
                       /\ EntryHours(entries', date, selectedEmployeeId) = s - p
                       /\ PermitShownAndReported(date, p)'
      ]_vars

\* C8 witness: a Permesso on 9 December 2025 (8 scheduled hours) of the
\* first stored employee with 5 worked hours stored: the input shows 3
C8_Witness ==
    /\ selectedEmployeeId = "e1"
    /\ selectedMonth = 11
    /\ SelectedLeaveIs(NewDate(2025, 11, 9), PERMESSO)
    /\ EntryHours(entries, NewDate(2025, 11, 9), "e1") = 5000
    /\ displayValue(NewDate(2025, 11, 9)) = <<"3">>

-----------------------------------------------------------------------------
(* getApprovedLeave over stored requests *)

\* the requests a stored list is drawn from: both employees, every status
\* (Pending and Rejected requests only come from stored data), ranges of one
\* and of several days around 10 December 2025, and a range that ends before
\* it starts (no handler validates the order)
LookupRequests ==
    [employeeId : {"e1", "e2"},
     type : {FERIE, PERMESSO},
     status : LeaveStatus,
     startDate : {20251209, 20251210},
     endDate : {20251209, 20251211}]

\* the request with the id it is stored under
WithId(req, id) == [id |-> id] @@ req

\* the stored lists: of no, one and two requests
LookupLists ==
    {<<>>} \cup {<<WithId(a, 1)>> : a \in LookupRequests}
           \cup {<<WithId(a, 1), WithId(b, 2)>> : a, b \in LookupRequests}

\* the days looked up: from the day before the earliest start to the day
\* after the latest end
LookupDates == {NewDate(2025, 11, d) : d \in 8..12}

\* a view calls getApprovedLeave(date, empId): the call and what it returned
LookupLeave(date, empId) ==
    /\ lookup' = [date |-> date, empId |-> empId,
                  result |-> getApprovedLeave(date, empId)]
    /\ UNCHANGED <<dataVars, sheetVars, ops, reportVars, annualVars, dst, view, editVars>>

InitLookup ==
    /\ employees = StoredEmployees
    /\ entries = <<>>
    /\ leaveRequests \in LookupLists
    /\ selectedEmployeeId = employees[1].id
    /\ selectedMonth = 11
    /\ selectedYear = 2025
    /\ ops = 0
    /\ reportMonth = 11
    /\ reportYear = 2025
    /\ reportData = undefined
    /\ annualYear = 2025
    /\ annualEmployeeId = "ALL"
    /\ annualData = undefined
    /\ dst = TRUE
    /\ view = "TIMESHEET"
    /\ editingId = null
    /\ editSchedule = createDefaultSchedule({1, 2, 3, 4, 5})
    /\ lookup = undefined

NextLookup ==
    \E date \in LookupDates, i \in 1..Len(employees) :
        LookupLeave(date, employees[i].id)

SpecLookup == InitLookup /\ [][NextLookup]_vars

-----------------------------------------------------------------------------
(* Claims about getApprovedLeave, checked under SpecLookup *)

\* the positions of the requests that qualify for the employee on the date
Qualifying(list, date, empId) ==
    {i \in 1..Len(list) :
        /\ list[i].employeeId = empId
        /\ list[i].status = APPROVED
        /\ list[i].startDate <= formatDateISO(date)
        /\ formatDateISO(date) <= list[i].endDate}

\* C9: getApprovedLeave returns the first request in list order of the
\* employee that is Approved and whose range, both bounds included, holds
\* the date, and nothing when there is none; Pending and Rejected requests
\* have no effect on the result (it is that of the list without them), and
\* of two approved requests covering the date the earlier one is returned.
C9_FirstApprovedCovering ==
    lookup # undefined =>
        LET q == Qualifying(leaveRequests, lookup.date, lookup.empId)
            approvedOnly == SelectSeq(leaveRequests,
                                      LAMBDA r : r.status = APPROVED)
        IN  /\ q = {} => lookup.result = undefined
            /\ q # {} =>
                   /\ lookup.result # undefined
                   /\ \E i \in q : /\ \A j \in q : i <= j
                                   /\ lookup.result = leaveRequests[i]
            /\ lookup.result =
                   ApprovedLeave(approvedOnly, lookup.date, lookup.empId)

\* C9, a further case reached: a Pending request and an Approved request of the employee
\* were looked up on the last day of both; the second, Approved one was
\* returned
C9_PendingSkipped ==
    /\ lookup # undefined
    /\ Len(leaveRequests) = 2
    /\ leaveRequests[1].status = PENDING
    /\ leaveRequests[1].employeeId = lookup.empId
    /\ leaveRequests[1].endDate = formatDateISO(lookup.date)
    /\ leaveRequests[2].endDate = formatDateISO(lookup.date)
    /\ leaveRequests[2].startDate < leaveRequests[2].endDate
    /\ lookup.result = leaveRequests[2]

\* C9 witness of the tie: two Approved requests of the employee cover the
\* day looked up, the one stored first was returned
C9_FirstOfTwoReturned ==
    /\ lookup # undefined
    /\ Cardinality(Qualifying(leaveRequests, lookup.date, lookup.empId)) = 2
    /\ leaveRequests[1].type # leaveRequests[2].type
    /\ lookup.result = leaveRequests[1]

-----------------------------------------------------------------------------
(* The annual report (ReportsView.tsx calculateAnnualStats) *)

\* the days of a year in the order the loops over the months and their days
\* visit them
YearDays ==
    [y \in DOMAIN MonthDays |->
        MonthDays[y][0] \o MonthDays[y][1] \o MonthDays[y][2] \o
        MonthDays[y][3] \o MonthDays[y][4] \o MonthDays[y][5] \o
        MonthDays[y][6] \o MonthDays[y][7] \o MonthDays[y][8] \o
        MonthDays[y][9] \o MonthDays[y][10] \o MonthDays[y][11]]

\* a sched that does not look at the holidays
AnnualSched_EveryDay(emp, day) == emp.defaultSchedule[getDay(day)]

\* sched of a day: 0 on a holiday, else the default hours of the weekday
AnnualSched(emp, day) ==
    IF isHoliday(day) THEN 0 ELSE emp.defaultSchedule[getDay(day)]

\* a worked of a day that takes the first entry of the day, of any employee
AnnualWorked_AnyEmployee(emp, day) ==
    LET hit == {i \in 1..Len(entries) : entries[i].date = formatDateISO(day)}
    IN  IF hit = {} THEN 0
        ELSE entries[CHOOSE i \in hit : \A j \in hit : i <= j].hours

\* worked of a day: the hours of the first entry of the employee on it, or 0
AnnualWorked(emp, day) ==
    LET i == FindEntry(entries, emp.id, formatDateISO(day))
    IN  IF i = 0 THEN 0 ELSE entries[i].hours

\* monthExpected after the first n days of the month
RECURSIVE MonthExpected(_, _, _)
MonthExpected(emp, ds, n) ==
    IF n = 0 THEN 0
    ELSE MonthExpected(emp, ds, n - 1) + AnnualSched(emp, ds[n])

\* monthWorked after the first n days of the month
RECURSIVE MonthWorked(_, _, _)
MonthWorked(emp, ds, n) ==
    IF n = 0 THEN 0
    ELSE MonthWorked(emp, ds, n - 1) + AnnualWorked(emp, ds[n])

\* a monthOvertime that is not floored at 0
MonthOvertime_NoFloor(emp, m, year) ==
    LET ds == MonthDays[year][m]
    IN  MonthWorked(emp, ds, Len(ds)) - MonthExpected(emp, ds, Len(ds))

\* monthOvertime of month m (0-indexed)
MonthOvertime(emp, m, year) ==
    LET ds == MonthDays[year][m]
    IN  Max(0, MonthWorked(emp, ds, Len(ds)) - MonthExpected(emp, ds, Len(ds)))

\* dates.sort((a, b) => a.getTime() - b.getTime()): x put into a sorted list
\* behind the elements that do not compare greater
RECURSIVE SortedInsert(_, _)
SortedInsert(sorted, x) ==
    IF sorted = <<>> THEN <<x>>
    ELSE IF getTime(sorted[Len(sorted)]) - getTime(x) <= 0
         THEN Append(sorted, x)
         ELSE Append(SortedInsert(SubSeq(sorted, 1, Len(sorted) - 1), x),
                     sorted[Len(sorted)])

RECURSIVE SortByTime(_, _)
SortByTime(dates, n) ==
    IF n = 0 THEN <<>>
    ELSE LET sorted == SortByTime(dates, n - 1)
         IN  SortedInsert(sorted, dates[n])

\* mergeDates: diffDays between the date and currentEnd
DiffDays(a, b) == CeilDiv(Abs(getTime(a) - getTime(b)), 24)

\* mergeDates: the body of the loop, from the loop state st (ranges,
\* currentStart, currentEnd, count) to the state after the date sorted[i]
MergeStep(st, date) ==
    IF DiffDays(date, st.currentEnd) = 1
    THEN [st EXCEPT !.currentEnd = date, !.count = st.count + 1]
    ELSE [ranges |-> Append(st.ranges, [start |-> st.currentStart,
                                        end |-> st.currentEnd,
                                        days |-> st.count]),
          currentStart |-> date,
          currentEnd |-> date,
          count |-> 1]

\* mergeDates: the loop state after the loop has handled sorted[i] (each
\* state is computed once, then handed to the body)
RECURSIVE MergeLoop(_, _)
MergeLoop(sorted, i) ==
    IF i = 1
    THEN [ranges |-> <<>>, currentStart |-> sorted[1],
          currentEnd |-> sorted[1], count |-> 1]
    ELSE CHOOSE next \in {MergeStep(st, sorted[i]) :
                             st \in {MergeLoop(sorted, i - 1)}} : TRUE

\* mergeDates on a non-empty array: sort, loop, push the last range
MergeSorted(dates) ==
    LET sorted == SortByTime(dates, Len(dates))
        st == MergeLoop(sorted, Len(sorted))
    IN  Append(st.ranges, [start |-> st.currentStart,
                           end |-> st.currentEnd,
                           days |-> st.count])

\* calculateAnnualStats mergeDates
mergeDates(dates) ==
    IF Len(dates) = 0 THEN <<>>
    ELSE CHOOSE ranges \in {MergeSorted(d) : d \in {dates}} : TRUE

\* leave dates that leave the holidays out
LeaveDates_WorkdaysOnly(emp, year, type) ==
    SelectSeq(YearDays[year],
              LAMBDA day : /\ ~isHoliday(day)
                           /\ LeaveIs(getApprovedLeave(day, emp.id), type))

\* the days of the year on which the approved leave of the employee is of
\* the type, in the order they are pushed
LeaveDates(emp, year, type) ==
    SelectSeq(YearDays[year],
              LAMBDA day : LeaveIs(getApprovedLeave(day, emp.id), type))

\* permitEvents: the Permesso days with scheduled hours left unworked
PermitEvents(emp, year) ==
    LET permitDays ==
            SelectSeq(LeaveDates(emp, year, PERMESSO),
                      LAMBDA day : Max(0, AnnualSched(emp, day)
                                          - AnnualWorked(emp, day)) > 0)
    IN  [i \in 1..Len(permitDays) |->
            [date |-> permitDays[i],
             hours |-> Max(0, AnnualSched(emp, permitDays[i])
                              - AnnualWorked(emp, permitDays[i]))]]

\* overtimeEvents: the months with overtime, dated on their first day
OvertimeEvents(emp, year) ==
    LET months == SelectSeq(<<0, 1, 2, 3, 4, 5, 6, 7, 8, 9, 10, 11>>,
                            LAMBDA m : MonthOvertime(emp, m, year) > 0)
    IN  [i \in 1..Len(months) |->
            [date |-> NewDate(year, months[i], 1),
             hours |-> MonthOvertime(emp, months[i], year)]]

\* the hours of a list of events, summed
RECURSIVE EventHours(_, _)
EventHours(events, n) ==
    IF n = 0 THEN 0 ELSE EventHours(events, n - 1) + events[n].hours

\* totalExpected, totalWorked or totalOvertime after the months 0..m
RECURSIVE YearTotal(_, _, _, _)
YearTotal(emp, year, m, total) ==
    IF m < 0 THEN 0
    ELSE YearTotal(emp, year, m - 1, total)
         + (LET ds == MonthDays[year][m]
            IN  IF total = "expected" THEN MonthExpected(emp, ds, Len(ds))
                ELSE IF total = "worked" THEN MonthWorked(emp, ds, Len(ds))
                ELSE MonthOvertime(emp, m, year))

\* ReportsView.tsx calculateAnnualStats
calculateAnnualStats(emp, year) ==
    LET overtimeEvents == OvertimeEvents(emp, year)
        permitEvents == PermitEvents(emp, year)
        ferieDates == LeaveDates(emp, year, FERIE)
        malattiaDates == LeaveDates(emp, year, MALATTIA)
    IN  [employee |-> emp,
         totalExpected |-> YearTotal(emp, year, 11, "expected"),
         totalWorked |-> YearTotal(emp, year, 11, "worked"),
         totalOvertime |-> YearTotal(emp, year, 11, "overtime"),
         totalPermitHours |-> EventHours(permitEvents, Len(permitEvents)),
         totalFerieDays |-> Len(ferieDates),
         totalMalattiaDays |-> Len(malattiaDates),
         overtimeEvents |-> overtimeEvents,
         permitEvents |-> permitEvents,
         ferieRanges |-> mergeDates(ferieDates),
         malattiaRanges |-> mergeDates(malattiaDates)]

\* the annualData memo: the statistics of every employee for 'ALL', those of
\* the chosen employee otherwise, null when the id is unknown
AnnualDataOf(empId, year) ==
    IF empId = "ALL"
    THEN [i \in 1..Len(employees) |-> calculateAnnualStats(employees[i], year)]
    ELSE IF FindEmployee(empId) = undefined THEN "null"
         ELSE calculateAnnualStats(FindEmployee(empId), year)

\* the year select of the annual tab
setAnnualYear(y) ==
    /\ annualYear' = y
    /\ annualData' = AnnualDataOf(annualEmployeeId, y)
    /\ UNCHANGED <<dataVars, sheetVars, ops, reportVars, annualEmployeeId,
                   dst, view, editVars, lookup>>

\* the employee select of the annual tab
setAnnualEmployeeId(id) ==
    /\ annualEmployeeId' = id
    /\ annualData' = AnnualDataOf(id, annualYear)
    /\ UNCHANGED <<dataVars, sheetVars, ops, reportVars, annualYear,
                   dst, view, editVars, lookup>>

-----------------------------------------------------------------------------
(* The annual report over stored data *)

\* stored leave requests the annual report is computed from: Ferie over the
\* end and over the start of daylight saving time, Malattia over a month
\* boundary and again two days later, Ferie over the end of the year, and a
\* Permesso on a scheduled Saturday
AnnualLeavePool ==
    << [id |-> 1, employeeId |-> "e1", startDate |-> 20251025,
        endDate |-> 20251027, type |-> FERIE, status |-> APPROVED],
       [id |-> 2, employeeId |-> "e1", startDate |-> 20250329,
        endDate |-> 20250331, type |-> FERIE, status |-> APPROVED],
       [id |-> 3, employeeId |-> "e1", startDate |-> 20250130,
        endDate |-> 20250201, type |-> MALATTIA, status |-> APPROVED],
       [id |-> 4, employeeId |-> "e1", startDate |-> 20250203,
        endDate |-> 20250203, type |-> MALATTIA, status |-> APPROVED],
       [id |-> 5, employeeId |-> "e2", startDate |-> 20251231,
        endDate |-> 20260102, type |-> FERIE, status |-> APPROVED],
       [id |-> 6, employeeId |-> "e2", startDate |-> 20250906,
        endDate |-> 20250906, type |-> PERMESSO, status |-> APPROVED] >>

\* the years shown in the annual tab
AnnualYears == {2025, 2026}

InitAnnual ==
    /\ employees = StoredEmployees
    /\ entries \in {<<>>, EntryPool}
    /\ leaveRequests \in SubLists(SubSeq(AnnualLeavePool, 1, 4))
                         \cup {AnnualLeavePool}
    /\ selectedEmployeeId = employees[1].id
    /\ selectedMonth = 11
    /\ selectedYear = 2025
    /\ ops = 0
    /\ reportMonth = 11
    /\ reportYear = 2025
    /\ reportData = undefined
    /\ annualYear = 2025
    /\ annualEmployeeId = "ALL"
    /\ dst \in BOOLEAN
    /\ view = "REPORTS"
    /\ editingId = null
    /\ editSchedule = createDefaultSchedule({1, 2, 3, 4, 5})
    /\ annualData = AnnualDataOf(annualEmployeeId, annualYear)
    /\ lookup = undefined

NextAnnual ==
    \/ \E y \in AnnualYears \ {annualYear} : setAnnualYear(y)
    \/ \E id \in {"ALL"} \cup {employees[i].id : i \in 1..Len(employees)} :
           id # annualEmployeeId /\ setAnnualEmployeeId(id)

SpecAnnual == InitAnnual /\ [][NextAnnual]_vars

-----------------------------------------------------------------------------
(* Claims about the annual report, checked under SpecAnnual *)

\* the statistics shown, as a list
ShownStats == IF annualEmployeeId = "ALL" THEN annualData ELSE <<annualData>>

\* the list of dates holds the calendar day numbered n
HasDay(dates, n) == \E k \in 1..Len(dates) : DayNumber(dates[k]) = n

\* the maximal runs of consecutive calendar days of an ascending list of
\* distinct dates, each with the number of its dates
MaximalRuns(dates) ==
    LET starts == SelectSeq(dates, LAMBDA d : ~HasDay(dates, DayNumber(d) - 1))
        ends == SelectSeq(dates, LAMBDA d : ~HasDay(dates, DayNumber(d) + 1))
    IN  [k \in 1..Len(starts) |->
            [start |-> starts[k], end |-> ends[k],
             days |-> DayNumber(ends[k]) - DayNumber(starts[k]) + 1]]

\* C10 as stated: the Ferie and the Malattia ranges of a year are, in
\* ascending order, exactly the maximal runs of consecutive calendar days of
\* the Ferie and Malattia dates, also over a month boundary and over a
\* daylight-saving change; each range counts the dates it holds.
C10_AsStated ==
    \A i \in 1..Len(ShownStats) :
        LET stats == ShownStats[i]
            ferie == LeaveDates(stats.employee, annualYear, FERIE)
            malattia == LeaveDates(stats.employee, annualYear, MALATTIA)
        IN  /\ stats.ferieRanges = MaximalRuns(ferie)
            /\ stats.malattiaRanges = MaximalRuns(malattia)

\* C10, without clock changes: on a host whose local days all last 24 hours
\* the ranges are the maximal runs of consecutive calendar days.
C10_WithoutClockChange ==
    ~dst => \A i \in 1..Len(ShownStats) :
        LET stats == ShownStats[i]
            ferie == LeaveDates(stats.employee, annualYear, FERIE)
            malattia == LeaveDates(stats.employee, annualYear, MALATTIA)
        IN  /\ stats.ferieRanges = MaximalRuns(ferie)
            /\ stats.malattiaRanges = MaximalRuns(malattia)

\* C10, the example: the Malattia of the first stored employee from 30 January
\* to 1 February 2025 and on 3 February gives a range of 3 days and one of 1
C10_ThreePlusOne ==
    /\ annualYear = 2025
    /\ annualEmployeeId = "e1"
    /\ annualData.malattiaRanges =
           << [start |-> NewDate(2025, 0, 30), end |-> NewDate(2025, 1, 1),
               days |-> 3],
              [start |-> NewDate(2025, 1, 3), end |-> NewDate(2025, 1, 3),
               days |-> 1] >>

\* C10, the day the clocks go back: with Ferie from 25 to 27 October 2025
\* the 25-hour day between the 26th and the 27th splits the three
\* consecutive days into a range of 2 days and a range of 1 day
C10_FallBackSplits ==
    /\ dst
    /\ annualYear = 2025
    /\ annualEmployeeId = "e1"
    /\ annualData.ferieRanges =
           << [start |-> NewDate(2025, 9, 25), end |-> NewDate(2025, 9, 26),
               days |-> 2],
              [start |-> NewDate(2025, 9, 27), end |-> NewDate(2025, 9, 27),
               days |-> 1] >>

\* the overtime of a month as the sums over its calendar days give it
ClaimMonthOvertime(emp, month, year) ==
    Max(0, ClaimWorked(emp, month, year) - ClaimExpected(emp, month, year))

\* C11: the annual totalOvertime of an employee is the sum over the twelve
\* months of max(0, monthWorked - monthExpected); a month with a deficit
\* takes nothing off it, so it is at least max(0, totalWorked - totalExpected).
C11_OvertimeSummedPerMonth ==
    \A i \in 1..Len(ShownStats) :
        LET stats == ShownStats[i]
        IN  /\ stats.totalOvertime =
                   SumTo([k \in 1..12 |->
                             ClaimMonthOvertime(stats.employee, k - 1, annualYear)],
                         12)
            /\ stats.totalOvertime >=
                   Max(0, stats.totalWorked - stats.totalExpected)

\* C11 witness: 2025 of the second stored employee with the stored entries:
\* half an hour of overtime in September in a year worked far below the
\* schedule
C11_Witness ==
    /\ annualYear = 2025
    /\ annualEmployeeId = "e2"
    /\ annualData.totalOvertime = 500
    /\ annualData.totalWorked < annualData.totalExpected

\* the days of the year on which the first approved request of the employee
\* covering the day is of the type
ClaimLeaveDays(emp, year, type) ==
    {k \in 1..Len(YearDays[year]) :
        LET cov == ClaimCovering(emp.id, YearDays[year][k])
        IN  /\ cov # {}
            /\ leaveRequests[CHOOSE i \in cov : \A j \in cov : i <= j].type
                   = type}

\* the permit hours of a day: max(0, scheduled - worked)
ClaimPermitHours(emp, day) ==
    Max(0, Scheduled(emp, day) - ClaimWorkedOn(emp.id, day))

\* C12: totalFerieDays and totalMalattiaDays count the calendar days of the
\* year, holidays and unscheduled days included, whose approved leave is of
\* that type; overtimeEvents holds exactly one event for each month with
\* overtime > 0; permitEvents holds exactly one event for each Permesso day
\* with max(0, scheduled - worked) > 0, and totalPermitHours is the sum of
\* the hours of those events.
C12_AnnualCountsAndEvents ==
    \A i \in 1..Len(ShownStats) :
        LET stats == ShownStats[i]
            emp == stats.employee
            yd == YearDays[annualYear]
            otMonths == {m \in 0..11 :
                            ClaimMonthOvertime(emp, m, annualYear) > 0}
            permitDays == {k \in ClaimLeaveDays(emp, annualYear, PERMESSO) :
                              ClaimPermitHours(emp, yd[k]) > 0}
            ot == stats.overtimeEvents
            pe == stats.permitEvents
        IN  /\ stats.totalFerieDays =
                   Cardinality(ClaimLeaveDays(emp, annualYear, FERIE))
            /\ stats.totalMalattiaDays =
                   Cardinality(ClaimLeaveDays(emp, annualYear, MALATTIA))
            /\ Len(ot) = Cardinality(otMonths)
            /\ \A m \in otMonths : \E e \in 1..Len(ot) :
                   /\ ot[e].date = NewDate(annualYear, m, 1)
                   /\ ot[e].hours = ClaimMonthOvertime(emp, m, annualYear)
            /\ Len(pe) = Cardinality(permitDays)
            /\ \A k \in permitDays : \E e \in 1..Len(pe) :
                   /\ pe[e].date = yd[k]
                   /\ pe[e].hours = ClaimPermitHours(emp, yd[k])
            /\ stats.totalPermitHours =
                   SumTo([e \in 1..Len(pe) |-> pe[e].hours], Len(pe))

\* C12 witness: 2025 of both stored employees with every stored request and
\* no entry: the first has 6 Ferie days (a Sunday among them) and 4 Malattia
\* days (a Saturday and a Sunday among them), the second one permit event of
\* 4.5 hours
C12_Witness ==
    /\ annualYear = 2025
    /\ annualEmployeeId = "ALL"
    /\ entries = <<>>
    /\ annualData[1].totalFerieDays = 6
    /\ annualData[1].totalMalattiaDays = 4
    /\ annualData[2].permitEvents =
           << [date |-> NewDate(2025, 8, 6), hours |-> 4500] >>
    /\ annualData[2].totalPermitHours = 4500

\* C12, a further case reached: with the stored entries the second employee
\* has one overtime event, dated 1 September 2025, and the Permesso day,
\* worked beyond its schedule, gives no permit event
C12_OvertimeEventNoPermit ==
    /\ annualYear = 2025
    /\ annualEmployeeId = "e2"
    /\ Len(leaveRequests) = Len(AnnualLeavePool)
    /\ annualData.overtimeEvents =
           << [date |-> NewDate(2025, 8, 1), hours |-> 500] >>
    /\ annualData.permitEvents = <<>>

-----------------------------------------------------------------------------
(* The calendar: holidays and scheduled hours, day by day *)

\* TimesheetView totals: scheduled of a day of the selected month
TotalsScheduled(emp, day) ==
    IF isHoliday(day) THEN 0 ELSE emp.defaultSchedule[getDay(day)]

\* the days of the years the views offer, from 1 January 2023 on
AllDays ==
    YearDays[2023] \o YearDays[2024] \o YearDays[2025] \o YearDays[2026]

\* a view's loop over the days evaluates the next day for an employee:
\* isHoliday and the scheduled hours as the monthly report, the annual
\* report and the timesheet totals compute them
DayEvaluated(k, emp) ==
    /\ k = IF lookup = undefined THEN 1 ELSE lookup.index + 1
    /\ lookup' = [index |-> k,
                  date |-> AllDays[k],
                  employee |-> emp,
                  holiday |-> isHoliday(AllDays[k]),
                  monthly |-> Scheduled(emp, AllDays[k]),
                  annual |-> AnnualSched(emp, AllDays[k]),
                  totals |-> TotalsScheduled(emp, AllDays[k])]
    /\ UNCHANGED <<dataVars, sheetVars, ops, reportVars, annualVars, dst, view, editVars>>

InitCalendar ==
    /\ employees = StoredEmployees
    /\ entries = <<>>
    /\ leaveRequests = <<>>
    /\ selectedEmployeeId = employees[1].id
    /\ selectedMonth = 11
    /\ selectedYear = 2025
    /\ ops = 0
    /\ reportMonth = 11
    /\ reportYear = 2025
    /\ reportData = undefined
    /\ annualYear = 2025
    /\ annualEmployeeId = "ALL"
    /\ annualData = undefined
    /\ dst \in BOOLEAN
    /\ view = "REPORTS"
    /\ editingId = null
    /\ editSchedule = createDefaultSchedule({1, 2, 3, 4, 5})
    /\ lookup = undefined

NextCalendar ==
    \E k \in 1..Len(AllDays), i \in 1..Len(employees) :
        DayEvaluated(k, employees[i])

SpecCalendar == InitCalendar /\ [][NextCalendar]_vars

-----------------------------------------------------------------------------
(* Claims about the calendar, checked under SpecCalendar *)

\* the weekday of the k-th day counted from Sunday 1 January 2023
WeekdayOf(k) == (k - 1) % 7

\* the ten fixed holidays, as <<day, zero-indexed month>>
FixedHolidays ==
    { <<1, 0>>, <<6, 0>>, <<25, 3>>, <<1, 4>>, <<2, 5>>, <<15, 7>>,
      <<1, 10>>, <<8, 11>>, <<25, 11>>, <<26, 11>> }

\* C13: the scheduled hours of an employee on a date are 0 when the date is
\* a holiday and the defaultSchedule value of the date's weekday otherwise,
\* in the monthly report, the annual report and the timesheet totals alike;
\* a Sunday or a fixed holiday gives 0 even when the schedule of that
\* weekday is positive.
C13_ScheduledZeroOnHolidays ==
    lookup # undefined =>
        LET std == lookup.employee.defaultSchedule[WeekdayOf(lookup.index)]
            due == IF lookup.holiday THEN 0 ELSE std
        IN  /\ lookup.monthly = due
            /\ lookup.annual = due
            /\ lookup.totals = due
            /\ (\/ WeekdayOf(lookup.index) = 0
                \/ <<lookup.date.d, lookup.date.m>> \in FixedHolidays) =>
                   (lookup.monthly = 0 /\ lookup.annual = 0 /\ lookup.totals = 0)

\* C13 witness: a Sunday of the second stored employee, whose schedule has
\* 4 hours on Sundays: 0 scheduled hours
C13_Witness ==
    /\ lookup # undefined
    /\ lookup.date = NewDate(2025, 8, 7)
    /\ lookup.employee.defaultSchedule[0] = 4000
    /\ lookup.holiday
    /\ lookup.monthly = 0 /\ lookup.annual = 0 /\ lookup.totals = 0

\* C13, a further case reached: Saturday 15 August 2026, a fixed holiday on
\* a weekday the second stored employee is scheduled for, gives 0 as well
C13_FixedHolidayOnScheduledDay ==
    /\ lookup # undefined
    /\ lookup.date = NewDate(2026, 7, 15)
    /\ lookup.employee.defaultSchedule[WeekdayOf(lookup.index)] = 4500
    /\ lookup.monthly = 0 /\ lookup.annual = 0 /\ lookup.totals = 0

\* C14: isHoliday(date) is true exactly when the date is a Sunday or its
\* day and month are those of 1 Jan, 6 Jan, 25 Apr, 1 May, 2 Jun, 15 Aug,
\* 1 Nov, 8 Dec, 25 Dec or 26 Dec, whatever the year; it is false for every
\* other date.
C14_HolidayIffSundayOrFixed ==
    lookup # undefined =>
        (lookup.holiday <=>
            \/ WeekdayOf(lookup.index) = 0
            \/ <<lookup.date.d, lookup.date.m>> \in FixedHolidays)

\* C14 witness: Tuesday 6 January 2026 is a holiday
C14_Witness ==
    /\ lookup # undefined
    /\ lookup.date = NewDate(2026, 0, 6)
    /\ WeekdayOf(lookup.index) = 2
    /\ lookup.holiday

\* C14, a further case reached: Tuesday 2 January 2024 is no holiday
C14_OrdinaryDay ==
    /\ lookup # undefined
    /\ lookup.date = NewDate(2024, 0, 2)
    /\ ~lookup.holiday

-----------------------------------------------------------------------------
(* The hours notation: formatHoursDisplay and parseHoursInput, call by call *)

\* the multiples of half an hour from 0 to 999 hours
HalfHours == { 500 * k : k \in 0..1998 }

\* fractions of an hour, in thousandths, on both sides of the thresholds of
\* formatHoursDisplay (1/100 around the full and the half hour)
Fractions ==
    { 0, 1, 4, 9, 11, 14, 100, 125, 250, 300, 333, 375, 489, 491, 496, 500,
      504, 509, 511, 625, 700, 750, 875, 986, 989, 991, 996, 999 }

\* the numbers formatHoursDisplay is called with: the half hours, and
\* values with other fractions, of either sign
HourValues ==
    HalfHours
        \cup { sg * (h * 1000 + f) : sg \in {-1, 1}, h \in {0, 1, 8, 9, 12, 99, 100},
                                      f \in Fractions }

\* the values formatHoursDisplay is called with
FormatValues == { Num(v) : v \in HourValues } \cup { NaN, null, undefined }

\* the characters typed into an hours input
HourChars == { "3", "0", "7", "a", ",", ".", "-", " " }

\* the strings parseHoursInput is called with: all strings of up to four
\* typed characters, and some longer ones
InputStrings ==
    UNION { [1..n -> HourChars] : n \in 0..4 }
        \cup { <<"a", "b", "c", ",", "3", "0">>, <<".", "b", "c", ",", "3", "0">>,
               <<"1", "2", ",", "3", "0">>, <<"-", "0", ",", "3", "0">>,
               <<" ", "-", "8", ",", "3", " ">>, <<"1", "0", "0", ",", "7", "5">> }

\* formatHoursDisplay(hours) returns its text
formatHoursDisplayCalled ==
    /\ lookup.fn = "formatHoursDisplay"
    /\ ~lookup.returned
    /\ lookup' = [fn |-> "formatHoursDisplay", hours |-> lookup.hours,
                  returned |-> TRUE,
                  text |-> formatHoursDisplayOfValue(lookup.hours)]
    /\ UNCHANGED <<dataVars, sheetVars, ops, reportVars, annualVars, dst, view, editVars>>

\* the text shown for a number is read back by parseHoursInput
DisplayedTextParsed ==
    /\ lookup.fn = "formatHoursDisplay"
    /\ lookup.returned
    /\ lookup' = [fn |-> "parseHoursInput(formatHoursDisplay)",
                  hours |-> lookup.hours,
                  returned |-> TRUE,
                  text |-> lookup.text,
                  result |-> parseHoursInput(lookup.text)]
    /\ UNCHANGED <<dataVars, sheetVars, ops, reportVars, annualVars, dst, view, editVars>>

\* parseHoursInput(input) returns its number
parseHoursInputCalled ==
    /\ lookup.fn = "parseHoursInput"
    /\ ~lookup.returned
    /\ lookup' = [fn |-> "parseHoursInput", input |-> lookup.input,
                  returned |-> TRUE,
                  result |-> parseHoursInput(lookup.input)]
    /\ UNCHANGED <<dataVars, sheetVars, ops, reportVars, annualVars, dst, view, editVars>>

InitHours ==
    /\ employees = StoredEmployees
    /\ entries = <<>>
    /\ leaveRequests = <<>>
    /\ selectedEmployeeId = employees[1].id
    /\ selectedMonth = 11
    /\ selectedYear = 2025
    /\ ops = 0
    /\ reportMonth = 11
    /\ reportYear = 2025
    /\ reportData = undefined
    /\ annualYear = 2025
    /\ annualEmployeeId = "ALL"
    /\ annualData = undefined
    /\ dst = FALSE
    /\ view = "TIMESHEET"
    /\ editingId = null
    /\ editSchedule = createDefaultSchedule({1, 2, 3, 4, 5})
    /\ \/ \E value \in FormatValues :
              lookup = [fn |-> "formatHoursDisplay", hours |-> value,
                        returned |-> FALSE]
       \/ \E input \in InputStrings :
              lookup = [fn |-> "parseHoursInput", input |-> input,
                        returned |-> FALSE]

NextHours ==
    \/ formatHoursDisplayCalled
    \/ DisplayedTextParsed
    \/ parseHoursInputCalled

SpecHours == InitHours /\ [][NextHours]_vars

-----------------------------------------------------------------------------
(* Claims about the hours notation, checked under SpecHours *)

\* C15: for every multiple x of 0.5 in [0, 999],
\* parseHoursInput(formatHoursDisplay(x)) = x; for x = 0 the text is the
\* empty string and parsing it gives 0 again.
C15_HalfHoursRoundTrip ==
    (/\ lookup.fn = "parseHoursInput(formatHoursDisplay)"
     /\ lookup.hours \notin {NaN, null, undefined}) =>
        (lookup.hours.v \in HalfHours =>
            /\ lookup.result = lookup.hours.v
            /\ lookup.hours.v = 0 => lookup.text = <<>>)

\* C15 witness: 8.5 is shown as "8,30" and read back as 8.5
C15_Witness ==
    /\ lookup.fn = "parseHoursInput(formatHoursDisplay)"
    /\ lookup.hours = Num(8500)
    /\ lookup.text = <<"8", ",", "3", "0">>
    /\ lookup.result = 8500

\* C15, further cases reached: 0 is shown as "" and read back as 0, and
\* 998.5 survives the round trip
C15_ZeroAndLargest ==
    /\ lookup.fn = "parseHoursInput(formatHoursDisplay)"
    /\ \/ lookup.hours = Num(0) /\ lookup.text = <<>> /\ lookup.result = 0
       \/ lookup.hours = Num(998500) /\ lookup.result = 998500

\* a digit string of one hundredth of hours: "h,dd"
TwoDecimals(cents) ==
    NatToStr(cents \div 100)
        \o <<",", Digits[((cents % 100) \div 10) + 1], Digits[(cents % 10) + 1]>>

\* the text C16 requires for a value
RequiredText(value, text) ==
    IF value \in {NaN, null, undefined} THEN text = <<>>
    ELSE IF value.v = 0 THEN text = <<>>
    ELSE LET sign == IF value.v < 0 THEN <<"-">> ELSE <<>>
             abs == IF value.v < 0 THEN 0 - value.v ELSE value.v
             h == abs \div 1000
             r == abs % 1000
         IN  IF r > 490 /\ r < 510 THEN text = sign \o NatToStr(h) \o <<",", "3", "0">>
             ELSE IF r < 10 THEN text = sign \o NatToStr(h)
             ELSE \E cents \in (abs \div 10)..(abs \div 10 + 1) :
                     /\ 10 * cents - abs \in -5..5
                     /\ text = sign \o TwoDecimals(cents)

\* C16: formatHoursDisplay returns "" for 0, NaN, null and undefined;
\* otherwise, with h the integer part and r the fractional remainder of the
\* absolute value, sign and h and ",30" when r is within 0.01 of 0.5, sign
\* and h when r is within 0.01 of 0, and else the absolute value with two
\* decimals and a comma as separator, after the sign.
C16_FormatByCases ==
    (lookup.fn = "formatHoursDisplay" /\ lookup.returned) =>
        RequiredText(lookup.hours, lookup.text)

\* C16 witness: -12.504 is shown as "-12,30"
C16_Witness ==
    /\ lookup.fn = "formatHoursDisplay"
    /\ lookup.returned
    /\ lookup.hours = Num(-12504)
    /\ lookup.text = <<"-", "1", "2", ",", "3", "0">>

\* C16, further cases reached: NaN gives "", 8.996 gives "9,00" and -0.004
\* gives "-0"
C16_OtherCases ==
    /\ lookup.fn = "formatHoursDisplay"
    /\ lookup.returned
    /\ \/ lookup.hours = NaN /\ lookup.text = <<>>
       \/ lookup.hours = Num(8996) /\ lookup.text = <<"9", ",", "0", "0">>
       \/ lookup.hours = Num(-4) /\ lookup.text = <<"-", "0">>

\* a string that starts, after the blanks, the comma made a period and a
\* leading minus taken off, with a numeric literal: an optional sign, then a
\* digit or a period and a digit
NumberLed(input) ==
    LET clean0 == ReplaceFirst(Trim(input), ",", ".")
        clean == IF clean0 # <<>> /\ Head(clean0) = "-" THEN Tail(clean0)
                 ELSE clean0
        u == Unsigned(TrimLeft(clean))
    IN  /\ u # <<>>
        /\ \/ IsDigit(u[1])
           \/ u[1] = "." /\ Len(u) >= 2 /\ IsDigit(u[2])

\* C17: parseHoursInput is total: for every input string it returns a
\* number, and it returns 0 whenever the input cannot be parsed as a number
\* (empty, blank, non-numeric, a lone sign, malformed shorthand).
C17_AsStated ==
    (lookup.fn = "parseHoursInput" /\ lookup.returned) =>
        /\ lookup.result \in Int
        /\ ~NumberLed(lookup.input) => lookup.result = 0

\* C17 witness: the malformed shorthand ".bc,30" is read as half an hour
C17_Witness ==
    /\ lookup.fn = "parseHoursInput"
    /\ lookup.returned
    /\ lookup.input = <<".", "b", "c", ",", "3", "0">>
    /\ lookup.result = 500

\* the cleaned input starts with a period and ends in ".3" or ".30"
DotLedShorthand(input) ==
    LET clean0 == ReplaceFirst(Trim(input), ",", ".")
        clean == IF clean0 # <<>> /\ Head(clean0) = "-" THEN Tail(clean0)
                 ELSE clean0
    IN  /\ clean # <<>>
        /\ Head(clean) = "."
        /\ EndsWith(clean, <<".", "3", "0">>) \/ EndsWith(clean, <<".", "3">>)

\* C17, what holds: a number is always returned, and it is 0 for every
\* input that does not start with a number, unless the input starts with
\* the separator and ends in the half-hour shorthand
C17_ZeroUnlessDotLedShorthand ==
    (lookup.fn = "parseHoursInput" /\ lookup.returned) =>
        /\ lookup.result \in Int
        /\ (~NumberLed(lookup.input) /\ ~DotLedShorthand(lookup.input)) =>
               lookup.result = 0

\* C17, a case reached: "abc,30" gives 0
C17_LettersShorthandZero ==
    /\ lookup.fn = "parseHoursInput"
    /\ lookup.returned
    /\ lookup.input = <<"a", "b", "c", ",", "3", "0">>
    /\ lookup.result = 0

-----------------------------------------------------------------------------
(* EmployeesView: adding employees and editing their weekly schedule *)

\* the ids generateId gives to new employees, in the order they are drawn
EmployeeIds == <<"e1", "e2", "e3", "e4", "e5", "e6", "e7">>

\* generateId for an employee: an id no stored employee carries
generateEmployeeId(list) ==
    EmployeeIds[CHOOSE n \in 1..(Len(list) + 1) :
                    /\ \A i \in 1..Len(list) : list[i].id # EmployeeIds[n]
                    /\ \A k \in 1..(n - 1) :
                           \E i \in 1..Len(list) : list[i].id = EmployeeIds[k]]

\* the names typed into the form of a new employee
TypedNames == { <<>>, <<" ">>, <<"A", "d", "a">> }

\* the working days of the company settings handed to the view
CompanyWorkingDays == { {1, 2, 3, 4, 5}, {2, 3, 4, 5, 6}, {} }

\* the texts typed into an hours input of the schedule editor
TypedScheduleTexts == { <<>>, <<"4", ",", "3", "0">>, <<"-", "3">> }

\* the weekdays whose input is used in the schedule editor
EditedDays == {0, 1}

\* handleAddEmployee with the form's name and the company's working days
handleAddEmployee(newEmployeeName, companyWorkingDays) ==
    /\ ops < MaxOps
    /\ Trim(newEmployeeName) # <<>>
    /\ employees' = Append(employees,
            [id |-> generateEmployeeId(employees),
             defaultSchedule |-> createDefaultSchedule(companyWorkingDays)])
    /\ ops' = ops + 1
    /\ UNCHANGED <<entries, leaveRequests, sheetVars, reportVars, annualVars,
                   dst, view, editVars, lookup>>

\* startEditing: the schedule of emp is copied into the editor
startEditing(emp) ==
    /\ ops < MaxOps
    /\ editingId' = [id |-> emp.id]
    /\ editSchedule' = emp.defaultSchedule
    /\ ops' = ops + 1
    /\ UNCHANGED <<dataVars, sheetVars, reportVars, annualVars, dst, view, lookup>>

\* saveSchedule of the employee being edited (the button of the open editor)
saveSchedule ==
    /\ ops < MaxOps
    /\ editingId # null
    /\ employees' =
           [i \in 1..Len(employees) |->
               IF employees[i].id = editingId.id
               THEN [employees[i] EXCEPT !.defaultSchedule = editSchedule]
               ELSE employees[i]]
    /\ editingId' = null
    /\ ops' = ops + 1
    /\ UNCHANGED <<entries, leaveRequests, sheetVars, reportVars, annualVars,
                   dst, view, editSchedule, lookup>>

\* handleScheduleChange: the input of weekday day of the open editor
handleScheduleChange(day, value) ==
    /\ ops < MaxOps
    /\ editingId # null
    /\ editSchedule' = [editSchedule EXCEPT ![day] = parseHoursInput(value)]
    /\ ops' = ops + 1
    /\ UNCHANGED <<dataVars, sheetVars, reportVars, annualVars, dst, view,
                   editingId, lookup>>

\* handleScheduleIncrement: the up / down buttons of weekday day
handleScheduleIncrement(day, delta) ==
    /\ ops < MaxOps
    /\ editingId # null
    /\ editSchedule' = [editSchedule EXCEPT ![day] = Max(0, @ + delta)]
    /\ ops' = ops + 1
    /\ UNCHANGED <<dataVars, sheetVars, reportVars, annualVars, dst, view,
                   editingId, lookup>>

InitEmployees ==
    /\ employees \in {<<>>, StoredEmployees}
    /\ entries = <<>>
    /\ leaveRequests = <<>>
    /\ selectedEmployeeId = "e1"
    /\ selectedMonth = 11
    /\ selectedYear = 2025
    /\ ops = 0
    /\ reportMonth = 11
    /\ reportYear = 2025
    /\ reportData = undefined
    /\ annualYear = 2025
    /\ annualEmployeeId = "ALL"
    /\ annualData = undefined
    /\ dst = TRUE
    /\ view = "SETTINGS"
    /\ editingId = null
    /\ editSchedule = createDefaultSchedule({1, 2, 3, 4, 5})
    /\ lookup = undefined

NextEmployees ==
    \/ \E name \in TypedNames, workingDays \in CompanyWorkingDays :
           handleAddEmployee(name, workingDays)
    \/ \E i \in 1..Len(employees) : startEditing(employees[i])
    \/ \E day \in EditedDays, value \in TypedScheduleTexts :
           handleScheduleChange(day, value)
    \/ \E day \in EditedDays, delta \in {500, -500} :
           handleScheduleIncrement(day, delta)
    \/ saveSchedule

SpecEmployees == InitEmployees /\ [][NextEmployees]_vars

-----------------------------------------------------------------------------
(* Claims about the stored schedules, checked under SpecEmployees *)

\* C18: after any sequence of handleAddEmployee, handleScheduleChange,
\* handleScheduleIncrement and saveSchedule, the defaultSchedule of every
\* stored employee has exactly the 7 weekday keys 0..6 and every value is
\* at least 0.
C18_AsStated ==
    \A i \in 1..Len(employees) :
        /\ DOMAIN employees[i].defaultSchedule = 0..6
        /\ \A day \in 0..6 : employees[i].defaultSchedule[day] >= 0

\* C18 witness: "-3" typed into the Monday input of the first employee's
\* editor and saved: -3 hours stored for the Mondays
C18_Witness ==
    /\ Len(employees) = 2
    /\ employees[1].id = "e1"
    /\ employees[1].defaultSchedule[1] = -3000
    /\ editingId = null

\* C18, what holds: the 7 weekday keys are kept
C18_SevenWeekdayKeys ==
    \A i \in 1..Len(employees) : DOMAIN employees[i].defaultSchedule = 0..6

\* C18, what holds: the up / down buttons never leave a negative value in
\* the input they change
C18_IncrementNotNegative ==
    [][\A day \in EditedDays, delta \in {500, -500} :
           handleScheduleIncrement(day, delta) => editSchedule'[day] >= 0]_vars

\* C18, a case reached: a new employee added with the Tuesday-to-Saturday
\* working days, its Sunday raised by half an hour and saved
C18_AddedAndEdited ==
    /\ Len(employees) = 1
    /\ employees[1].defaultSchedule[6] = 8000
    /\ editSchedule[0] = 500
    /\ editingId # null

-----------------------------------------------------------------------------
(* LeaveRequestsView: the list of absences *)

\* a request handleAddRequest would store as Pending
NewRequest_Pending(list, employeeId, startDate, endDate, leaveType) ==
    [id |-> generateId(list), employeeId |-> employeeId,
     startDate |-> startDate, endDate |-> endDate,
     type |-> leaveType, status |-> PENDING]

\* handleAddRequest: newRequest, approved as it is created
NewRequest(list, employeeId, startDate, endDate, leaveType) ==
    [id |-> generateId(list), employeeId |-> employeeId,
     startDate |-> startDate, endDate |-> endDate,
     type |-> leaveType, status |-> APPROVED]

\* handleAddRequest with the fields of the form; an empty employee id is "",
\* the value of an empty date input is written 0
handleAddRequest(employeeId, startDate, endDate, leaveType) ==
    /\ ops < MaxOps
    /\ employeeId # "" /\ startDate # 0 /\ endDate # 0
    /\ leaveRequests' =
           <<NewRequest(leaveRequests, employeeId, startDate, endDate,
                        leaveType)>> \o leaveRequests
    /\ ops' = ops + 1
    /\ UNCHANGED <<employees, entries, sheetVars, reportVars, annualVars,
                   dst, view, editVars, lookup>>

\* updateStatus, from the Approva / Rifiuta buttons a Pending request shows
updateStatus(id, status) ==
    /\ ops < MaxOps
    /\ \E i \in 1..Len(leaveRequests) :
           leaveRequests[i].id = id /\ leaveRequests[i].status = PENDING
    /\ leaveRequests' =
           [i \in 1..Len(leaveRequests) |->
               IF leaveRequests[i].id = id
               THEN [leaveRequests[i] EXCEPT !.status = status]
               ELSE leaveRequests[i]]
    /\ ops' = ops + 1
    /\ UNCHANGED <<employees, entries, sheetVars, reportVars, annualVars,
                   dst, view, editVars, lookup>>

\* handleDelete of a listed request, the question confirmed
handleDelete(id) ==
    /\ ops < MaxOps
    /\ \E i \in 1..Len(leaveRequests) : leaveRequests[i].id = id
    /\ leaveRequests' = RemoveId(leaveRequests, id)
    /\ ops' = ops + 1
    /\ UNCHANGED <<employees, entries, sheetVars, reportVars, annualVars,
                   dst, view, editVars, lookup>>

\* the employee selected in the form: none, or the first employee
FormEmployeeIds == {"", "e1"}

\* the values of the two date inputs of the form
FormStartDates == {0, 20251208, 20251210}

FormEndDates == {20251208, 20251209}

\* the types chosen in the form
FormLeaveTypes == {FERIE, PERMESSO}

\* a list stored by an earlier version, with a request still Pending
LegacyRequests ==
    << [id |-> 1, employeeId |-> "e1", startDate |-> 20251208,
        endDate |-> 20251209, type |-> MALATTIA, status |-> PENDING] >>

InitLeave ==
    /\ employees = StoredEmployees
    /\ entries = <<>>
    /\ leaveRequests \in {<<>>, LegacyRequests}
    /\ selectedEmployeeId = "e1"
    /\ selectedMonth = 11
    /\ selectedYear = 2025
    /\ ops = 0
    /\ reportMonth = 11
    /\ reportYear = 2025
    /\ reportData = undefined
    /\ annualYear = 2025
    /\ annualEmployeeId = "ALL"
    /\ annualData = undefined
    /\ dst = TRUE
    /\ view = "LEAVE"
    /\ editingId = null
    /\ editSchedule = createDefaultSchedule({1, 2, 3, 4, 5})
    /\ lookup = undefined

NextLeave ==
    \/ \E employeeId \in FormEmployeeIds, startDate \in FormStartDates,
          endDate \in FormEndDates, leaveType \in FormLeaveTypes :
           handleAddRequest(employeeId, startDate, endDate, leaveType)
    \/ \E date \in ClickDates, type \in LeaveType : handleQuickLeave(date, type)
    \/ \E i \in 1..Len(leaveRequests), status \in {APPROVED, REJECTED} :
           updateStatus(leaveRequests[i].id, status)
    \/ \E i \in 1..Len(leaveRequests) : handleDelete(leaveRequests[i].id)

SpecLeave == InitLeave /\ [][NextLeave]_vars

-----------------------------------------------------------------------------
(* Claims about the stored leave requests, checked under SpecLeave *)

\* C19: after any sequence of handleAddRequest and handleQuickLeave calls,
\* every stored leave request satisfies startDate <= endDate.
C19_AsStated ==
    \A i \in 1..Len(leaveRequests) :
        leaveRequests[i].startDate <= leaveRequests[i].endDate

\* C19 witness: a request from 10 December to 8 December 2025, stored by
\* handleAddRequest as the first of the list
C19_Witness ==
    /\ leaveRequests # <<>>
    /\ leaveRequests[1].startDate = 20251210
    /\ leaveRequests[1].endDate = 20251208
    /\ leaveRequests[1].status = APPROVED

\* C19, what holds: a request appended by handleQuickLeave covers one day
C19_QuickLeaveOneDay ==
    [][\A date \in ClickDates, type \in LeaveType :
           (handleQuickLeave(date, type) /\ Len(leaveRequests') > 0) =>
               \/ Len(leaveRequests') < Len(leaveRequests)
               \/ LET new == leaveRequests'[Len(leaveRequests')]
                  IN  new.startDate = new.endDate]_vars

AllApproved ==
    \A i \in 1..Len(leaveRequests) : leaveRequests[i].status = APPROVED

\* C20: starting from an empty leave list, after any sequence of
\* handleAddRequest, handleQuickLeave, updateStatus (offered only for Pending
\* requests) and delete, every stored request has status Approved.
C20_ApprovedFromEmpty == (leaveRequests = <<>>) => []AllApproved

\* C20 witness: two handler calls from the empty list, a request of several
\* days from the form and a day from the timesheet, both Approved
C20_Witness ==
    /\ ops = 2
    /\ Len(leaveRequests) = 2
    /\ AllApproved
    /\ leaveRequests[1].type = FERIE
    /\ leaveRequests[1].startDate < leaveRequests[1].endDate
    /\ leaveRequests[2].type = PERMESSO
    /\ leaveRequests[2].startDate = leaveRequests[2].endDate

\* C20, supporting: no handler call ends a state in which all requests are
\* Approved, so a Pending or Rejected request is never created
C20_ApprovedKept == [][AllApproved => AllApproved']_vars

\* C20, a case reached from a stored list: a Pending request rejected
C20_LegacyRejected ==
    /\ leaveRequests # <<>>
    /\ leaveRequests[Len(leaveRequests)].status = REJECTED

-----------------------------------------------------------------------------
(* getDaysInMonth, call by call *)

\* the years getDaysInMonth is called with: the years of the model, a leap
\* year, and the century years 2000 (leap) and 2100 (not leap)
CalledYears == {2000, 2023, 2024, 2025, 2026, 2028, 2100}

\* getDaysInMonth(month, year) returns its list of dates
getDaysInMonthCalled ==
    /\ lookup.fn = "getDaysInMonth"
    /\ ~lookup.returned
    /\ lookup' = [fn |-> "getDaysInMonth", month |-> lookup.month,
                  year |-> lookup.year, returned |-> TRUE,
                  days |-> getDaysInMonth(lookup.month, lookup.year)]
    /\ UNCHANGED <<dataVars, sheetVars, ops, reportVars, annualVars, dst, view, editVars>>

InitMonths ==
    /\ employees = StoredEmployees
    /\ entries = <<>>
    /\ leaveRequests = <<>>
    /\ selectedEmployeeId = employees[1].id
    /\ selectedMonth = 11
    /\ selectedYear = 2025
    /\ ops = 0
    /\ reportMonth = 11
    /\ reportYear = 2025
    /\ reportData = undefined
    /\ annualYear = 2025
    /\ annualEmployeeId = "ALL"
    /\ annualData = undefined
    /\ dst \in BOOLEAN
    /\ view = "TIMESHEET"
    /\ editingId = null
    /\ editSchedule = createDefaultSchedule({1, 2, 3, 4, 5})
    /\ \E month \in 0..11, year \in CalledYears :
           lookup = [fn |-> "getDaysInMonth", month |-> month, year |-> year,
                     returned |-> FALSE]

NextMonths == getDaysInMonthCalled

SpecMonths == InitMonths /\ [][NextMonths]_vars

-----------------------------------------------------------------------------
(* Claims about getDaysInMonth, checked under SpecMonths *)

\* the number of days of a month of the Gregorian calendar (month 0..11)
CalendarLength(month, year) ==
    CASE month \in {3, 5, 8, 10} -> 30
      [] month = 1 ->
            (IF year % 400 = 0 THEN 29
             ELSE IF year % 100 = 0 THEN 28
             ELSE IF year % 4 = 0 THEN 29 ELSE 28)
      [] OTHER -> 31

\* C23: getDaysInMonth(month, year) returns every calendar day of the month
\* exactly once, from the 1st to the last inclusive, in ascending order (28,
\* 29, 30 or 31 dates according to month and leap year), and no day of
\* another month.
C23_EveryDayOnceAscending ==
    (lookup.fn = "getDaysInMonth" /\ lookup.returned) =>
        /\ Len(lookup.days) = CalendarLength(lookup.month, lookup.year)
        /\ \A k \in 1..Len(lookup.days) :
               /\ lookup.days[k].d = k
               /\ lookup.days[k].m = lookup.month
               /\ lookup.days[k].y = lookup.year

\* C23 witness: February 2024 has the 29 days from the 1st to the 29th
C23_Witness ==
    /\ lookup.fn = "getDaysInMonth"
    /\ lookup.returned
    /\ lookup.month = 1 /\ lookup.year = 2024
    /\ Len(lookup.days) = 29
    /\ lookup.days[1] = NewDate(2024, 1, 1)
    /\ lookup.days[29] = NewDate(2024, 1, 29)

\* C23, further cases reached: February 2100 has 28 days, December 2025 has
\* 31 and ends the loop in the next year
C23_CenturyAndDecember ==
    /\ lookup.fn = "getDaysInMonth"
    /\ lookup.returned
    /\ \/ lookup.month = 1 /\ lookup.year = 2100 /\ Len(lookup.days) = 28
       \/ lookup.month = 11 /\ lookup.year = 2025 /\ Len(lookup.days) = 31

-----------------------------------------------------------------------------
(* Deleting an employee, and the reports opened afterwards *)

\* a filter that keeps the employee instead of removing it
EmployeesWithout_KeepsOnly(list, id) == SelectSeq(list, LAMBDA e : e.id = id)

\* EmployeesView handleDelete: employees.filter(e => e.id !== id)
EmployeesWithout(list, id) == SelectSeq(list, LAMBDA e : e.id # id)

\* EmployeesView handleDelete of a listed employee, the question confirmed;
\* the view is shown in the settings, where no report is on screen
handleDeleteEmployee(id) ==
    /\ view = "SETTINGS"
    /\ \E i \in 1..Len(employees) : employees[i].id = id
    /\ employees' = EmployeesWithout(employees, id)
    /\ UNCHANGED <<entries, leaveRequests, sheetVars, ops, reportVars,
                   annualVars, dst, view, editVars, lookup>>

\* App: the reports are opened; ReportsView starts on the current month and
\* year with all employees in the annual tab, and renders both reports
ReportsOpened(month, year) ==
    /\ view # "REPORTS"
    /\ view' = "REPORTS"
    /\ reportMonth' = month
    /\ reportYear' = year
    /\ reportData' = generateReportData(month, year)
    /\ annualYear' = year
    /\ annualEmployeeId' = "ALL"
    /\ annualData' = AnnualDataOf("ALL", year)
    /\ UNCHANGED <<dataVars, sheetVars, ops, dst, editVars, lookup>>

\* App: the settings are opened, with EmployeesView; ReportsView is
\* unmounted
SettingsOpened ==
    /\ view # "SETTINGS"
    /\ view' = "SETTINGS"
    /\ reportData' = undefined
    /\ annualData' = undefined
    /\ UNCHANGED <<dataVars, sheetVars, ops, reportMonth, reportYear,
                   annualYear, annualEmployeeId, dst, editVars, lookup>>

InitDelete ==
    /\ employees = StoredEmployees
    /\ entries \in {<<>>, EntryPool, SubSeq(EntryPool, 1, 2),
                    SubSeq(EntryPool, 3, 4)}
    /\ leaveRequests \in {<<>>, LeavePool, AnnualLeavePool}
    /\ selectedEmployeeId = employees[1].id
    /\ selectedMonth = 11
    /\ selectedYear = 2025
    /\ ops = 0
    /\ reportMonth = 11
    /\ reportYear = 2025
    /\ reportData = undefined
    /\ annualYear = 2025
    /\ annualEmployeeId = "ALL"
    /\ annualData = undefined
    /\ dst = TRUE
    /\ view = "SETTINGS"
    /\ editingId = null
    /\ editSchedule = createDefaultSchedule({1, 2, 3, 4, 5})
    /\ lookup = undefined

NextDelete ==
    \/ \E i \in 1..Len(employees) : handleDeleteEmployee(employees[i].id)
    \/ \E month \in ReportMonths : ReportsOpened(month, 2025)
    \/ SettingsOpened

SpecDelete == InitDelete /\ [][NextDelete]_vars

-----------------------------------------------------------------------------
(* Claims about deleting an employee, checked under SpecDelete *)

\* the list without its element at position i
WithoutPosition(list, i) ==
    [k \in 1..(Len(list) - 1) |-> IF k < i THEN list[k] ELSE list[k + 1]]

\* the reports on screen have one row per stored employee, in order, with
\* the hours and days of that employee's own records only
ReportsOfStoredEmployees ==
    view = "REPORTS" =>
        /\ Len(reportData) = Len(employees)
        /\ Len(annualData) = Len(employees)
        /\ \A i \in 1..Len(employees) :
               /\ reportData[i].id = employees[i].id
               /\ reportData[i].worked =
                      ClaimWorked(employees[i], reportMonth, reportYear)
               /\ reportData[i].expected =
                      ClaimExpected(employees[i], reportMonth, reportYear)
               /\ reportData[i].leaveHours =
                      ClaimLeaveHours(employees[i], reportMonth, reportYear)
               /\ annualData[i].employee = employees[i]
               /\ annualData[i].totalWorked =
                      SumTo([k \in 1..12 |->
                                ClaimWorked(employees[i], k - 1, annualYear)], 12)
               /\ annualData[i].totalFerieDays =
                      Cardinality(ClaimLeaveDays(employees[i], annualYear,
                                                 FERIE))
               /\ annualData[i].totalMalattiaDays =
                      Cardinality(ClaimLeaveDays(employees[i], annualYear,
                                                 MALATTIA))

\* C21: deleting an employee removes exactly that employee from the list and
\* leaves the time entries and the leave requests unchanged; afterwards the
\* monthly and the annual report are computed and hold no row and no hours
\* for the records of the deleted employee.
C21_DeleteWithoutCascade ==
    /\ []ReportsOfStoredEmployees
    /\ [][\A i \in 1..Len(employees) :
              handleDeleteEmployee(employees[i].id) =>
                  /\ employees' = WithoutPosition(employees, i)
                  /\ entries' = entries
                  /\ leaveRequests' = leaveRequests]_vars

\* C21 witness: the first employee deleted, its entries and requests still
\* stored, and the reports opened with the one row of the second employee
C21_Witness ==
    /\ Len(employees) = 1
    /\ employees[1].id = "e2"
    /\ \E k \in 1..Len(entries) : entries[k].employeeId = "e1"
    /\ \E k \in 1..Len(leaveRequests) : leaveRequests[k].employeeId = "e1"
    /\ view = "REPORTS"
    /\ Len(reportData) = 1 /\ reportData[1].id = "e2"
    /\ Len(annualData) = 1 /\ annualData[1].employee.id = "e2"

\* C21, a further case reached: both employees deleted, the reports empty
C21_AllDeleted ==
    /\ employees = <<>>
    /\ entries # <<>>
    /\ view = "REPORTS"
    /\ reportData = <<>>
    /\ annualData = <<>>

-----------------------------------------------------------------------------
(* The annual stats against the monthly reports, checked under SpecAnnual *)

\* the row of the monthly report of month m (0-indexed) of the year shown
\* in the annual tab, for the employee
MonthlyRowOf(emp, m) == ReportRow(emp, MonthDays[annualYear][m])

\* the days of a list of ranges, summed
RangeDays(ranges) == SumTo([k \in 1..Len(ranges) |-> ranges[k].days], Len(ranges))

\* C30: for every employee and year the annual stats agree with the twelve
\* monthly reports of the year: totalExpected, totalWorked and totalOvertime
\* are the sums of the monthly expected, worked and overtime values, and the
\* day counts of ferieRanges (malattiaRanges) add up to totalFerieDays
\* (totalMalattiaDays).
C30_AnnualIsSumOfMonths ==
    \A i \in 1..Len(ShownStats) :
        \A stats \in {ShownStats[i]} :
            \A rows \in {[k \in 1..12 |-> MonthlyRowOf(stats.employee, k - 1)]} :
                /\ stats.totalExpected =
                       SumTo([k \in 1..12 |-> rows[k].expected], 12)
                /\ stats.totalWorked =
                       SumTo([k \in 1..12 |-> rows[k].worked], 12)
                /\ stats.totalOvertime =
                       SumTo([k \in 1..12 |-> rows[k].overtime], 12)
                /\ RangeDays(stats.ferieRanges) = stats.totalFerieDays
                /\ RangeDays(stats.malattiaRanges) = stats.totalMalattiaDays

\* C30 witness: the first employee in 2025 with the stored entries, 14.5
\* hours worked, and 6 Ferie days in 3 ranges where the end of daylight
\* saving time splits a range
C30_Witness ==
    /\ annualYear = 2025
    /\ annualEmployeeId = "e1"
    /\ dst
    /\ annualData.totalWorked = 14500
    /\ annualData.totalFerieDays = 6
    /\ Len(annualData.ferieRanges) = 3

-----------------------------------------------------------------------------
(* Claims about handleQuickLeave, checked under SpecLeave and Spec *)

\* the leave classification of (employee, date): "none" or the type of the
\* approved leave looked up
LeaveTypeOf(date, empId) ==
    LET leave == getApprovedLeave(date, empId)
    IN  IF leave = undefined THEN "none" ELSE leave.type

\* the approved requests of the selected employee that cover the date
CoveringSelected(date) ==
    {i \in 1..Len(leaveRequests) :
        /\ leaveRequests[i].employeeId = selectedEmployeeId
        /\ leaveRequests[i].status = APPROVED
        /\ leaveRequests[i].startDate <= formatDateISO(date)
        /\ formatDateISO(date) <= leaveRequests[i].endDate}

\* C24: immediately after handleQuickLeave(date, T) for the selected
\* employee that is not a toggle-off, the approved leave looked up for
\* (employee, date) has type T, also when several approved requests added
\* through the leave form overlap the date.
C24_AsStated ==
    [][\A date \in ClickDates, type \in LeaveType :
           (/\ handleQuickLeave(date, type)
            /\ LeaveTypeOf(date, selectedEmployeeId) # type)
               => LeaveTypeOf(date, selectedEmployeeId)' = type]_vars

\* C24 witness: Ferie and then Permesso added in the form for 8 to 9
\* December, Malattia clicked on the 9th: the Permesso is replaced, and the
\* 9th is looked up as Ferie
C24_Witness ==
    /\ ops = 3
    /\ Len(leaveRequests) = 2
    /\ leaveRequests[1].type = FERIE
    /\ leaveRequests[1].startDate = 20251208
    /\ leaveRequests[1].endDate = 20251209
    /\ leaveRequests[2].type = MALATTIA
    /\ leaveRequests[2].startDate = 20251209
    /\ LeaveTypeOf(NewDate(2025, 11, 9), selectedEmployeeId) = FERIE

\* C24, what holds: the leave looked up has the clicked type when at most
\* one approved request of the employee covered the date before the click
C24_SingleCovering ==
    [][\A date \in ClickDates, type \in LeaveType :
           (/\ handleQuickLeave(date, type)
            /\ LeaveTypeOf(date, selectedEmployeeId) # type
            /\ Cardinality(CoveringSelected(date)) <= 1)
               => LeaveTypeOf(date, selectedEmployeeId)' = type]_vars

\* the dates around the clicked days
NearDates == {NewDate(2025, 11, d) : d \in 7..11}

\* C25: handleQuickLeave(date, T) for employee E changes the leave
\* classification of (E, date) only: for every other employee and every
\* other date of E the approved leave looked up is the same before and
\* after, also when the request covering the clicked date spans several
\* days.
C25_AsStated ==
    [][\A date \in ClickDates, type \in LeaveType :
           handleQuickLeave(date, type) =>
               \A other \in NearDates, i \in 1..Len(employees) :
                   (other # date \/ employees[i].id # selectedEmployeeId) =>
                       LeaveTypeOf(other, employees[i].id)'
                           = LeaveTypeOf(other, employees[i].id)]_vars

\* C25 witness: after a form request for 8 to 9 December and a click of
\* Malattia on the 9th, the 8th has no leave
C25_Witness ==
    /\ ops = 2
    /\ Len(leaveRequests) = 1
    /\ leaveRequests[1].type = MALATTIA
    /\ leaveRequests[1].startDate = 20251209
    /\ leaveRequests[1].id = 2
    /\ LeaveTypeOf(NewDate(2025, 11, 8), selectedEmployeeId) = "none"

\* C25, what holds: the classification of the other employees never
\* changes, and that of the other dates of the employee does not change
\* when the request replaced or removed covers the clicked date only
C25_OtherEmployeesAndOneDayRequests ==
    [][\A date \in ClickDates, type \in LeaveType :
           handleQuickLeave(date, type) =>
               \A other \in NearDates, i \in 1..Len(employees) :
                   (\/ employees[i].id # selectedEmployeeId
                    \/ /\ other # date
                       /\ \A k \in CoveringSelected(date) :
                              leaveRequests[k].startDate
                                  = leaveRequests[k].endDate) =>
                       LeaveTypeOf(other, employees[i].id)'
                           = LeaveTypeOf(other, employees[i].id)]_vars

\* C27: clicking the same quick-leave type T twice in a row on a date not
\* covered by any approved leave of the selected employee restores the
\* leave-request list (the second click removes exactly the request the
\* first click added); for T = Permesso the time entries are restored too.
\* First click: one request of type T for the date is appended, with a new
\* id, and is the one looked up. Second click, in a state whose last request
\* is such a request: exactly that request is removed.
C27_SecondClickRestores ==
    /\ [][\A date \in ClickDates, type \in LeaveType :
              (/\ handleQuickLeave(date, type)
               /\ CoveringSelected(date) = {})
                  => /\ Len(leaveRequests') = Len(leaveRequests) + 1
                     /\ SubSeq(leaveRequests', 1, Len(leaveRequests))
                            = leaveRequests
                     /\ CoveringSelected(date)' = {Len(leaveRequests')}
                     /\ leaveRequests'[Len(leaveRequests')].type = type
                     /\ \A k \in 1..Len(leaveRequests) :
                            leaveRequests[k].id
                                # leaveRequests'[Len(leaveRequests')].id
                     /\ type = PERMESSO => entries' = entries]_vars
    /\ [][\A date \in ClickDates, type \in LeaveType :
              (/\ handleQuickLeave(date, type)
               /\ CoveringSelected(date) = {Len(leaveRequests)}
               /\ leaveRequests[Len(leaveRequests)].type = type
               /\ \A k \in 1..(Len(leaveRequests) - 1) :
                      leaveRequests[k].id # leaveRequests[Len(leaveRequests)].id)
                  => /\ leaveRequests'
                            = SubSeq(leaveRequests, 1, Len(leaveRequests) - 1)
                     /\ type = PERMESSO => entries' = entries]_vars

\* C27 witness: Permesso clicked twice on 9 December with a Ferie of the
\* form stored for another period: the list is the one before the clicks
C27_Witness ==
    /\ ops = 3
    /\ entries = <<>>
    /\ Len(leaveRequests) = 1
    /\ leaveRequests[1].type = FERIE
    /\ leaveRequests[1].startDate = 20251208
    /\ leaveRequests[1].endDate = 20251208
    /\ leaveRequests[1].id = 1

\* C27, a case reached: the state between the two clicks
C27_AfterFirstClick ==
    /\ ops = 2
    /\ Len(leaveRequests) = 2
    /\ leaveRequests[1].startDate = 20251208
    /\ leaveRequests[1].endDate = 20251208
    /\ leaveRequests[2].type = PERMESSO
    /\ leaveRequests[2].startDate = 20251209

\* C26: after a handleQuickLeave with Ferie or Malattia that sets a leave
\* (not a toggle-off), the worked hours stored for (employee, date) are 0;
\* a handleQuickLeave with Permesso, and every toggle-off, leaves the time
\* entries unchanged.
C26_FullAbsenceClearsHours ==
    [][\A date \in ClickDates, type \in LeaveType :
           handleQuickLeave(date, type) =>
               IF type # PERMESSO /\ LeaveTypeOf(date, selectedEmployeeId) # type
               THEN /\ getEntryHours(date, selectedEmployeeId)' = 0
                    /\ \A i \in 1..Len(entries') :
                           (/\ entries'[i].employeeId = selectedEmployeeId
                            /\ entries'[i].date = formatDateISO(date))
                               => entries'[i].hours = 0
               ELSE entries' = entries]_vars

\* C26 witness: hours typed on 8 and 9 December 2025, then Ferie clicked on
\* the 9th: its entry is kept with 0 hours
C26_Witness ==
    /\ ops = 3
    /\ Len(entries) = 2
    /\ LeaveTypeOf(NewDate(2025, 11, 9), selectedEmployeeId) = FERIE
    /\ CountEntries(entries, selectedEmployeeId, 20251209) = 1
    /\ getEntryHours(NewDate(2025, 11, 9), selectedEmployeeId) = 0
    /\ getEntryHours(NewDate(2025, 11, 8), selectedEmployeeId) = 3500

\* C26, a case reached: Permesso clicked on a day with typed hours, and
\* clicked again: the hours are still there
C26_PermessoKeepsHours ==
    /\ ops = 3
    /\ leaveRequests = <<>>
    /\ Len(entries) = 1
    /\ getEntryHours(NewDate(2025, 11, 9), selectedEmployeeId) = 3700

-----------------------------------------------------------------------------
(* The totals of the timesheet footer and the tables of the monthly PDFs,
   computed from the entry list given *)

\* TimesheetView totals: what one day adds, for the selected employee
TotalsDay(list, day) ==
    LET hours == EntryHours(list, day, selectedEmployeeId)
        leave == getApprovedLeave(day, selectedEmployeeId)
        scheduled == Scheduled(selectedEmployee, day)
    IN  [worked |-> hours,
         ferieDays |-> IF LeaveIs(leave, FERIE) THEN 1 ELSE 0,
         ferieHours |-> IF LeaveIs(leave, FERIE) THEN scheduled ELSE 0,
         malattiaDays |-> IF LeaveIs(leave, MALATTIA) THEN 1 ELSE 0,
         malattiaHours |-> IF LeaveIs(leave, MALATTIA) THEN scheduled ELSE 0,
         permessoHours |-> IF LeaveIs(leave, PERMESSO)
                           THEN Max(0, scheduled - hours) ELSE 0]

\* TimesheetView totals (useMemo) for the selected employee and month
TotalsOf(list) ==
    IF selectedEmployee = undefined
    THEN [worked |-> 0, ferieDays |-> 0, ferieHours |-> 0, malattiaDays |-> 0,
          malattiaHours |-> 0, permessoHours |-> 0]
    ELSE LET perDay == [k \in 1..Len(days) |-> TotalsDay(list, days[k])]
             n == Len(days)
         IN  [worked |-> SumTo([k \in 1..n |-> perDay[k].worked], n),
              ferieDays |-> SumTo([k \in 1..n |-> perDay[k].ferieDays], n),
              ferieHours |-> SumTo([k \in 1..n |-> perDay[k].ferieHours], n),
              malattiaDays |->
                  SumTo([k \in 1..n |-> perDay[k].malattiaDays], n),
              malattiaHours |->
                  SumTo([k \in 1..n |-> perDay[k].malattiaHours], n),
              permessoHours |->
                  SumTo([k \in 1..n |-> perDay[k].permessoHours], n)]

totals == TotalsOf(entries)

\* generateGlobalPDFDoc: the cell of one day of the row of emp, and what the
\* day adds to the totals of the row
GlobalPdfDay(list, emp, date) ==
    LET worked == EntryHours(list, date, emp.id)
        leave == getApprovedLeave(date, emp.id)
        scheduled == Scheduled(emp, date)
    IN  [cellText |->
             IF LeaveIs(leave, FERIE) THEN <<"F">>
             ELSE IF LeaveIs(leave, MALATTIA) THEN <<"M">>
             ELSE IF LeaveIs(leave, PERMESSO)
                  THEN IF worked > 0 THEN formatHoursDisplay(worked)
                       ELSE <<"P">>
             ELSE IF worked > 0 THEN formatHoursDisplay(worked)
             ELSE <<"/">>,
         rowTotalWorked |-> IF worked > 0 THEN worked ELSE 0,
         rowPermitHours |-> IF LeaveIs(leave, PERMESSO)
                            THEN Max(0, scheduled - worked) ELSE 0,
         rowFerieDays |-> IF LeaveIs(leave, FERIE) THEN 1 ELSE 0,
         rowMalattiaDays |-> IF LeaveIs(leave, MALATTIA) THEN 1 ELSE 0]

\* generateGlobalPDFDoc: the row of emp for the days ds
GlobalPdfRow(list, emp, ds) ==
    LET perDay == [k \in 1..Len(ds) |-> GlobalPdfDay(list, emp, ds[k])]
        n == Len(ds)
    IN  [dayCells |-> [k \in 1..n |-> perDay[k].cellText],
         rowTotalWorked |-> SumTo([k \in 1..n |-> perDay[k].rowTotalWorked], n),
         rowPermitHours |-> SumTo([k \in 1..n |-> perDay[k].rowPermitHours], n),
         rowFerieDays |-> SumTo([k \in 1..n |-> perDay[k].rowFerieDays], n),
         rowMalattiaDays |->
             SumTo([k \in 1..n |-> perDay[k].rowMalattiaDays], n)]

\* a detail line that shows '-' only for a day without entry
DetailPdfDay_DashWithoutEntry(list, empId, date) ==
    LET workedHours == EntryHours(list, date, empId)
        leave == getApprovedLeave(date, empId)
        scheduled == IF FindEmployee(empId) = undefined THEN 0
                     ELSE Scheduled(FindEmployee(empId), date)
    IN  [status |-> IF leave # undefined THEN leave.type
                    ELSE IF isHoliday(date) THEN "Festivo"
                    ELSE "Lavorativo",
         hoursDisplay |-> IF FindEntry(list, empId, formatDateISO(date)) > 0
                          THEN formatHoursDisplay(workedHours)
                          ELSE <<"-">>,
         pdfTotalWorked |-> workedHours,
         pdfTotalPermitHours |-> IF LeaveIs(leave, PERMESSO)
                                 THEN Max(0, scheduled - workedHours) ELSE 0,
         pdfFerieDays |-> IF LeaveIs(leave, FERIE) THEN 1 ELSE 0,
         pdfMalattiaDays |-> IF LeaveIs(leave, MALATTIA) THEN 1 ELSE 0]

\* handleExportPDFDetail: the line of one day, and what the day adds to the
\* totals of the document
DetailPdfDay(list, empId, date) ==
    LET workedHours == EntryHours(list, date, empId)
        leave == getApprovedLeave(date, empId)
        scheduled == IF FindEmployee(empId) = undefined THEN 0
                     ELSE Scheduled(FindEmployee(empId), date)
    IN  [status |-> IF leave # undefined THEN leave.type
                    ELSE IF isHoliday(date) THEN "Festivo"
                    ELSE "Lavorativo",
         hoursDisplay |-> IF workedHours > 0 THEN formatHoursDisplay(workedHours)
                          ELSE <<"-">>,
         pdfTotalWorked |-> workedHours,
         pdfTotalPermitHours |-> IF LeaveIs(leave, PERMESSO)
                                 THEN Max(0, scheduled - workedHours) ELSE 0,
         pdfFerieDays |-> IF LeaveIs(leave, FERIE) THEN 1 ELSE 0,
         pdfMalattiaDays |-> IF LeaveIs(leave, MALATTIA) THEN 1 ELSE 0]

\* handleExportPDFDetail: the table and the totals for the days ds
DetailPdf(list, empId, ds) ==
    LET perDay == [k \in 1..Len(ds) |-> DetailPdfDay(list, empId, ds[k])]
        n == Len(ds)
    IN  [tableBody |-> [k \in 1..n |-> <<perDay[k].status,
                                         perDay[k].hoursDisplay>>],
         pdfTotalWorked |-> SumTo([k \in 1..n |-> perDay[k].pdfTotalWorked], n),
         pdfTotalPermitHours |->
             SumTo([k \in 1..n |-> perDay[k].pdfTotalPermitHours], n),
         pdfFerieDays |-> SumTo([k \in 1..n |-> perDay[k].pdfFerieDays], n),
         pdfMalattiaDays |->
             SumTo([k \in 1..n |-> perDay[k].pdfMalattiaDays], n)]

-----------------------------------------------------------------------------
(* The timesheet with signed text in the hours input *)

\* the texts that arrive from the hours input: those typed, and "-3", a
\* minus typed in front of a shown 3
SignedTexts == TypedTexts \cup { <<"-", "3">> }

NextSigned ==
    \/ \E i \in 1..Len(employees) :
           /\ employees[i].id # selectedEmployeeId
           /\ setSelectedEmployeeId(employees[i].id)
    \/ \E m \in ModelMonths \ {selectedMonth} : setSelectedMonth(m)
    \/ \E date \in ClickDates, val \in SignedTexts : handleInputChange(date, val)
    \/ \E date \in ClickDates, delta \in {500, -500} :
           handleInputIncrement(date, delta)
    \/ \E date \in ClickDates, type \in LeaveType : handleQuickLeave(date, type)
    \/ applyPresets

SpecSigned == Init /\ [][NextSigned]_vars

\* C28: after any sequence of timesheet operations (typed hour input,
\* increment and decrement buttons, permit-mode input, quick leave,
\* presets), every stored time entry has hours >= 0.
C28_AsStated == \A i \in 1..Len(entries) : entries[i].hours >= 0

\* C28 witness: "-3" arrived in the hours input of a day without leave
C28_Witness ==
    /\ ops = 1
    /\ leaveRequests = <<>>
    /\ Len(entries) = 1
    /\ entries[1].hours = -3000

\* C28, what holds: the buttons, the permit-mode input, the quick leave and
\* the presets store no negative hours, whatever is stored already; typed
\* text that is not negative stores none either
C28_OtherOperationsNotNegative ==
    [][(\/ \E date \in ClickDates, delta \in {500, -500} :
               handleInputIncrement(date, delta)
        \/ \E date \in ClickDates, val \in SignedTexts :
               /\ handleInputChange(date, val)
               /\ \/ LeaveTypeOf(date, selectedEmployeeId) = PERMESSO
                  \/ parseHoursInput(val) >= 0
        \/ \E date \in ClickDates, type \in LeaveType :
               handleQuickLeave(date, type)
        \/ applyPresets)
       => \A i \in 1..Len(entries') :
              entries'[i].hours < 0 =>
                  /\ i <= Len(entries)
                  /\ entries[i] = entries'[i]]_vars

\* C28, a case reached: a Permesso day with "-3" in the permit-mode input
\* stores the whole schedule, and the down button on -3 stored hours gives 0
C28_PermitModeClamped ==
    /\ ops = 2
    /\ LeaveTypeOf(NewDate(2025, 11, 9), selectedEmployeeId) = PERMESSO
    /\ Len(entries) = 1
    /\ entries[1].hours = 8000

\* the totals the four views show for the selected employee and month
ShownTotals ==
    [footer |-> totals,
     row |-> ReportRow(selectedEmployee, days),
     global |-> GlobalPdfRow(entries, selectedEmployee, days),
     detail |-> DetailPdf(entries, selectedEmployeeId, days)]

WorkedTotalsAgree(v) ==
    /\ v.footer.worked = v.row.worked
    /\ v.footer.worked = v.detail.pdfTotalWorked
    /\ v.footer.worked = v.global.rowTotalWorked

PermitAndLeaveTotalsAgree(v) ==
    /\ v.footer.permessoHours = v.global.rowPermitHours
    /\ v.footer.permessoHours = v.detail.pdfTotalPermitHours
    /\ v.row.leaveHours = v.footer.ferieHours + v.footer.malattiaHours
                              + v.footer.permessoHours

\* C29: for the same employee, month, entries and leave requests every view
\* reports the same totals: the worked total of the timesheet footer, of the
\* monthly report row, of the detail PDF and of the global PDF are equal,
\* the permit-hours totals of the footer and of both PDFs are equal, and the
\* leaveHours of the monthly row equals the footer's ferieHours +
\* malattiaHours + permessoHours.
C29_AsStated ==
    \A v \in {ShownTotals} : WorkedTotalsAgree(v) /\ PermitAndLeaveTotalsAgree(v)

\* C29 witness: with -3 hours stored on one day and 3,5 on another the
\* footer shows 0,5 hours worked and the global PDF 3,5
C29_Witness ==
    /\ ops = 2
    /\ Len(entries) = 2
    /\ totals.worked = 500
    /\ ReportRow(selectedEmployee, days).worked = 500
    /\ DetailPdf(entries, selectedEmployeeId, days).pdfTotalWorked = 500
    /\ GlobalPdfRow(entries, selectedEmployee, days).rowTotalWorked = 3500

\* C29, what holds: the permit and leave totals always agree, the worked
\* totals of footer, monthly row and detail PDF always agree, and the global
\* PDF agrees with them when no stored entry is negative
C29_AgreeWithoutNegativeHours ==
    \A v \in {ShownTotals} :
        /\ PermitAndLeaveTotalsAgree(v)
        /\ v.footer.worked = v.row.worked
        /\ v.footer.worked = v.detail.pdfTotalWorked
        /\ C28_AsStated => WorkedTotalsAgree(v)

\* C29, a case reached: hours, a Permesso with hours and a Ferie in one
\* month, all totals equal
C29_MixedMonthAgrees ==
    /\ ops = 3
    /\ C28_AsStated
    /\ totals.worked = 3000
    /\ totals.permessoHours = 5000
    /\ totals.ferieHours = 0
    /\ totals.ferieDays = 1
    /\ WorkedTotalsAgree(ShownTotals)

-----------------------------------------------------------------------------
(* The timesheet and the reports over stored data, with the hours input
   emptied and the reports exported *)

\* the texts of the hours input: emptied, and hours typed
EmptiedTexts == { <<>>, <<"3">> }

\* handleGlobalExportPDF, handleExportAnnualPDF: the documents saved, with
\* the stored records they were made from
ExportedReports ==
    [fn |-> "export", entries |-> entries, leaveRequests |-> leaveRequests,
     reportData |-> reportData, annualData |-> annualData]

\* the export buttons of the two tabs of ReportsView
handleExportPDF ==
    /\ view = "REPORTS"
    /\ lookup # ExportedReports
    /\ lookup' = ExportedReports
    /\ UNCHANGED <<dataVars, sheetVars, ops, reportVars, annualVars, dst, view,
                   editVars>>

\* App: 'Report' of the navigation; ReportsView is mounted on the current
\* month and year with all employees in the annual tab
setViewReports ==
    /\ ops < MaxOps
    /\ view = "TIMESHEET"
    /\ view' = "REPORTS"
    /\ reportMonth' = selectedMonth
    /\ reportYear' = selectedYear
    /\ reportData' = generateReportData(selectedMonth, selectedYear)
    /\ annualYear' = selectedYear
    /\ annualEmployeeId' = "ALL"
    /\ annualData' = AnnualDataOf("ALL", selectedYear)
    /\ ops' = ops + 1
    /\ UNCHANGED <<dataVars, sheetVars, dst, editVars, lookup>>

\* App: 'Inserisci Ore' of the navigation; ReportsView is unmounted and
\* TimesheetView mounted on the first employee
setViewTimesheet ==
    /\ view = "REPORTS"
    /\ view' = "TIMESHEET"
    /\ selectedEmployeeId' = employees[1].id
    /\ reportData' = undefined
    /\ annualData' = undefined
    /\ UNCHANGED <<dataVars, selectedMonth, selectedYear, ops, reportMonth,
                   reportYear, annualYear, annualEmployeeId, dst, editVars,
                   lookup>>

InitEmptied ==
    /\ employees \in {StoredEmployees, <<StoredEmployees[2], StoredEmployees[1]>>}
    /\ entries \in {<<>>, SubSeq(EntryPool, 2, 4)}
    /\ leaveRequests \in {<<>>, LeavePool}
    /\ selectedEmployeeId = employees[1].id
    /\ selectedMonth = 11
    /\ selectedYear = 2025
    /\ ops = 0
    /\ reportMonth = selectedMonth
    /\ reportYear = selectedYear
    /\ reportData = undefined
    /\ annualYear = selectedYear
    /\ annualEmployeeId = "ALL"
    /\ annualData = undefined
    /\ dst = TRUE
    /\ view = "TIMESHEET"
    /\ editingId = null
    /\ editSchedule = <<>>
    /\ lookup = undefined

NextEmptied ==
    \/ /\ view = "TIMESHEET"
       /\ \E date \in ClickDates, val \in EmptiedTexts :
              handleInputChange(date, val)
    \/ /\ view = "TIMESHEET"
       /\ \E date \in ClickDates : handleQuickLeave(date, PERMESSO)
    \/ setViewReports
    \/ handleExportPDF
    \/ setViewTimesheet

SpecEmptied == InitEmptied /\ [][NextEmptied]_vars

\* the days of the selected month around the days clicked
ZeroDates == {NewDate(selectedYear, selectedMonth, d) : d \in 8..10}

\* the stored entries and an entry with hours 0 for (employee, date)
WithZeroEntry(empId, date) ==
    Append(entries, [employeeId |-> empId, date |-> formatDateISO(date),
                     hours |-> 0])

\* the footer of the timesheet (for the selected employee) and the lines of
\* the employee in the two PDFs, from the entry list given
SheetAndPdfs(list, emp) ==
    [footer |-> IF emp.id = selectedEmployeeId THEN TotalsOf(list) ELSE <<>>,
     global |-> GlobalPdfRow(list, emp, days),
     detail |-> DetailPdf(list, emp.id, days)]

\* the list after is the list before with 0-hour entries added for
\* (employee, date) pairs that had no entry
ZeroEntriesAdded(before, after) ==
    /\ Len(after) > Len(before)
    /\ SubSeq(after, 1, Len(before)) = before
    /\ \A k \in (Len(before) + 1)..Len(after) :
           /\ after[k].hours = 0
           /\ FindEntry(before, after[k].employeeId, after[k].date) = 0

\* C22: a time entry with hours 0 is equivalent to no entry: the timesheet
\* totals, the monthly report row, the annual stats and the per-day cells
\* of the PDF tables are identical whether (employee, date) has an entry
\* with hours 0 or no entry at all. For the footer and the PDFs: in every
\* state, for every employee and date without entry, the outputs computed
\* with a 0-hour entry added are those computed without it. For the monthly
\* report and the annual stats: when the reports are shown for records that
\* differ from those of the exported documents by added 0-hour entries
\* only, they are the exported ones.
C22_ZeroEntryAsNoEntry ==
    /\ \A i \in 1..Len(employees) :
           \A shown \in {SheetAndPdfs(entries, employees[i])} :
               \A date \in ZeroDates :
                   FindEntry(entries, employees[i].id, formatDateISO(date)) = 0
                       => SheetAndPdfs(WithZeroEntry(employees[i].id, date),
                                       employees[i]) = shown
    /\ (/\ view = "REPORTS"
        /\ lookup # undefined
        /\ lookup.leaveRequests = leaveRequests
        /\ ZeroEntriesAdded(lookup.entries, entries))
           => /\ reportData = lookup.reportData
              /\ annualData = lookup.annualData

\* C22 witness: reports exported, then the input of 9 December of the first
\* employee, with entries stored on other days, emptied, and the reports
\* opened again
C22_Witness ==
    /\ ops = 3
    /\ view = "REPORTS"
    /\ lookup # undefined
    /\ lookup.leaveRequests = leaveRequests
    /\ Len(lookup.entries) = 3
    /\ Len(entries) = 4
    /\ entries[4] = [employeeId |-> "e1", date |-> 20251209, hours |-> 0]
    /\ annualData[1].totalWorked > 0

\* C22, a case reached: a 0-hour entry on a day with a Permesso and no
\* scheduled hours (the holiday of 8 December)
C22_ZeroEntryOnPermesso ==
    /\ ops = 2
    /\ Len(entries) = 1
    /\ entries[1].hours = 0
    /\ entries[1].date = 20251208
    /\ LeaveTypeOf(NewDate(2025, 11, 8), selectedEmployeeId) = PERMESSO

====
